---- MODULE Spec2Model ----
(***************************************************************************)
(* Zombie shooter: the GameEngine frame loop (src/src/game/engine.ts), the  *)
(* entities (src/unnamed/part_000, imported as './entities') and the        *)
(* ZombieShooterGame director (src/src/game/game.ts).                       *)
(*                                                                         *)
(* Numbers.  Positions and sizes are whole pixels.  Times (deltaTime,       *)
(* cooldowns, timers, lifespans, timestamps) are whole ticks, with          *)
(* TicksPerSecond ticks to the second, so that every time constant of the   *)
(* source is a whole number.  Unit vectors are held in fixed point with     *)
(* Unit standing for 1.0.  Products are divided with Div, which truncates   *)
(* toward zero; the rounding of IEEE doubles is not modelled.               *)
(*                                                                         *)
(* Objects live in the heap objs (id -> record); the engine's list          *)
(* entities, the director's player and obstacles and a zombie's target      *)
(* hold ids, as the source holds references.                                *)
(***************************************************************************)
EXTENDS Integers, Sequences, FiniteSets, TLC

VARIABLES
    \* GameEngine
    entities,          \* the live list, a sequence of ids
    objs,              \* the heap: id -> entity record
    lastTimestamp,
    gameLoopId,        \* the pending requestAnimationFrame handle, or Null
    isPaused,
    updateOverridden,  \* engine['update'] has been replaced by setupEventListeners
    \* ZombieShooterGame
    player,            \* id of the director's Player, or Null
    score,
    wave,
    zombiesRemaining,
    spawnCooldown,
    gameState,
    waveTimer,
    pickupSpawnTimer,
    obstacles,         \* sequence of ids
    \* InputHandler
    keys,              \* the keys that are down
    mouseButtons,      \* mouseButtons[0]
    mousePosition,
    \* the browser
    now,               \* performance.now(), in ticks
    rafPending,        \* the requestAnimationFrame handles not yet fired or cancelled
    nextId,            \* the next fresh object id
    initPc,            \* where ZombieShooterGame.init() stands
    inputEvents,       \* the input events, or the client's calls, so far
    lastCall,          \* the last call of a client: [op, arg]
    resumedAt,         \* <<T>> when resume() took effect at T and no frame
                       \* has been processed since, else <<>>
    \* history: what the last frame callback did
    frame

vars == <<entities, objs, lastTimestamp, gameLoopId, isPaused, updateOverridden,
          player, score, wave, zombiesRemaining, spawnCooldown, gameState,
          waveTimer, pickupSpawnTimer, obstacles, keys, mouseButtons,
          mousePosition, now, rafPending, nextId, initPc, inputEvents, lastCall,
          resumedAt, frame>>

(***************************************************************************)
(* Bounds of the model and scales.                                          *)
(***************************************************************************)
\* The clock stops here: no frame callback fires after MaxTime ticks.
MaxTime == 200

\* The user's key and mouse events in one run.
MaxInputs == 3

\* Ticks to the second (engine.ts:60 converts milliseconds to seconds).
TicksPerSecond == 20

\* Fixed-point 1.0 for the components of a normalized Vector2D.
Unit == 1000

\* null, for an id or a handle.
Null == 0

\* Infinity, the pistol's ammo.
Infinity == -1

\* canvas.width and canvas.height at construction (game.ts:26-27).
MapWidth == 200
MapHeight == 260

(***************************************************************************)
(* Arithmetic.                                                              *)
(***************************************************************************)
Div(a, b) == IF a >= 0 THEN a \div b ELSE -((-a) \div b)

Min(a, b) == IF a < b THEN a ELSE b
Max(a, b) == IF a > b THEN a ELSE b

Range(s) == {s[i] : i \in DOMAIN s}

\* TRUE, once v has been evaluated.  The loops below use it to make the state
\* a statement leaves a value before the next statement runs, as JavaScript
\* does; it bounds the depth of TLC's lazy evaluation and changes no result.
Done(v) == v = v

RECURSIVE SqrtBetween(_, _, _)
SqrtBetween(n, lo, hi) ==
    IF lo >= hi THEN lo
    ELSE LET mid == (lo + hi + 1) \div 2
         IN  IF mid * mid <= n THEN SqrtBetween(n, mid, hi)
                               ELSE SqrtBetween(n, lo, mid - 1)

\* Math.sqrt, rounded down.
Sqrt(n) == SqrtBetween(n, 0, 46340)

(***************************************************************************)
(* Vector2D (engine.ts:159-195).  A vector is a record [x, y].              *)
(***************************************************************************)
Vector2D(x, y) == [x |-> x, y |-> y]

\* |v| in sixteenths, so that short vectors keep some precision.
magnitude16(v) == Sqrt((v.x * v.x + v.y * v.y) * 256)

\* v / |v| in fixed point; the zero vector for the zero vector.
normalize(v) ==
    LET mag == magnitude16(v)
    IN  IF mag = 0 THEN Vector2D(0, 0)
        ELSE Vector2D(Div(v.x * Unit * 16, mag), Div(v.y * Unit * 16, mag))

\* A fixed-point vector times a scalar, back in plain units.
multiply(v, scalar) == Vector2D(Div(v.x * scalar, Unit), Div(v.y * scalar, Unit))

\* deltaTime seconds of movement at a speed in pixels per second along one
\* fixed-point component.
Step(component, speed, deltaTime) ==
    Div(component * speed * deltaTime, Unit * TicksPerSecond)

(***************************************************************************)
(* Times of the source, in ticks.                                           *)
(***************************************************************************)
\* n hundredths of a second.
Hundredths(n) == (n * TicksPerSecond) \div 100
Seconds(n) == n * TicksPerSecond

(***************************************************************************)
(* GameEntity (engine.ts:128-156) and the entities (part_000).              *)
(***************************************************************************)
\* GameEntity.markForDeletion
markForDeletion(e) == [e EXCEPT !.markedForDeletion = TRUE]

\* GameEntity.isMarkedForDeletion
isMarkedForDeletion(e) == e.markedForDeletion

\* new Player(x, y, sprite): the field initialisers and the constructor.
NewPlayer(x, y) ==
    [kind |-> "Player", x |-> x, y |-> y, width |-> 40, height |-> 40,
     markedForDeletion |-> FALSE,
     speed |-> 200, health |-> 100, maxHealth |-> 100,
     direction |-> Vector2D(Unit, 0),
     shootCooldown |-> 0, shootCooldownMax |-> Hundredths(20),
     weaponType |-> "pistol",
     ammo |-> [pistol |-> Infinity, shotgun |-> 20, rifle |-> 30],
     weaponDamage |-> [pistol |-> 25, shotgun |-> 15, rifle |-> 40]]

\* new Zombie(x, y, type, sprite); the target is set by setTarget.
NewZombie(x, y, type) ==
    [kind |-> "Zombie", x |-> x, y |-> y, width |-> 35, height |-> 35,
     markedForDeletion |-> FALSE,
     speed  |-> CASE type = "fast" -> 150 [] type = "tank" -> 60 [] OTHER -> 80,
     health |-> CASE type = "fast" -> 50 [] type = "tank" -> 200 [] OTHER -> 100,
     damage |-> CASE type = "fast" -> 5 [] type = "tank" -> 20 [] OTHER -> 10,
     target |-> Null,
     attackCooldown |-> 0, attackCooldownMax |-> Seconds(1),
     type |-> type]

\* new Bullet(x, y, direction, speed, damage, source)
NewBullet(x, y, direction, speed, damage, source) ==
    [kind |-> "Bullet", x |-> x, y |-> y, width |-> 5, height |-> 5,
     markedForDeletion |-> FALSE,
     velocity |-> multiply(normalize(direction), speed),
     damage |-> damage, lifespan |-> Seconds(2), source |-> source]

\* new Pickup(x, y, type, value, sprite)
NewPickup(x, y, type, value) ==
    [kind |-> "Pickup", x |-> x, y |-> y, width |-> 20, height |-> 20,
     markedForDeletion |-> FALSE, type |-> type, value |-> value]

\* new Obstacle(x, y, width, height, sprite)
NewObstacle(x, y, width, height) ==
    [kind |-> "Obstacle", x |-> x, y |-> y, width |-> width, height |-> height,
     markedForDeletion |-> FALSE]

------------------------------------------------------------------------------
(* Player *)

\* Player.update
PlayerUpdate(p, deltaTime) ==
    IF p.shootCooldown > 0
    THEN [p EXCEPT !.shootCooldown = @ - deltaTime]
    ELSE p

\* Player.move
PlayerMove(p, direction, deltaTime) ==
    LET normalizedDir == normalize(direction)
    IN  [p EXCEPT !.x = @ + Step(normalizedDir.x, p.speed, deltaTime),
                  !.y = @ + Step(normalizedDir.y, p.speed, deltaTime)]

\* Player.setDirection
PlayerSetDirection(p, direction) == [p EXCEPT !.direction = normalize(direction)]

\* ammo[weapon] > 0, with Infinity > 0.
AmmoLeft(p, weapon) == p.ammo[weapon] = Infinity \/ p.ammo[weapon] > 0

\* Player.canShoot
PlayerCanShoot(p) == p.shootCooldown <= 0 /\ AmmoLeft(p, p.weaponType)

\* The direction turned by an angle given as [cos, sin] in fixed point.
Rotate(direction, angle) ==
    Vector2D(Div(direction.x * angle.cos - direction.y * angle.sin, Unit),
             Div(direction.x * angle.sin + direction.y * angle.cos, Unit))

\* A variant of the switch of Player.shoot whose shotgun fires one pellet.
ShotBulletsOnePellet(p, spread) ==
    LET cx == p.x + p.width \div 2
        cy == p.y + p.height \div 2
        bulletSpeed == 500
    IN  CASE p.weaponType = "pistol" ->
               <<NewBullet(cx, cy, p.direction, bulletSpeed,
                           p.weaponDamage.pistol, "player")>>
          [] p.weaponType = "shotgun" ->
               <<NewBullet(cx, cy, Rotate(p.direction, spread[1]), bulletSpeed,
                           p.weaponDamage.shotgun, "player")>>
          [] p.weaponType = "rifle" ->
               <<NewBullet(cx, cy, p.direction, (bulletSpeed * 3) \div 2,
                           p.weaponDamage.rifle, "player")>>
          [] OTHER -> <<>>

\* The bullets of one shot (the switch of Player.shoot); spread holds the five
\* random spread angles of a shotgun shot.
ShotBullets(p, spread) ==
    LET cx == p.x + p.width \div 2
        cy == p.y + p.height \div 2
        bulletSpeed == 500
    IN  CASE p.weaponType = "pistol" ->
               <<NewBullet(cx, cy, p.direction, bulletSpeed,
                           p.weaponDamage.pistol, "player")>>
          [] p.weaponType = "shotgun" ->
               [i \in 1..5 |->
                   NewBullet(cx, cy, Rotate(p.direction, spread[i]), bulletSpeed,
                             p.weaponDamage.shotgun, "player")]
          [] p.weaponType = "rifle" ->
               <<NewBullet(cx, cy, p.direction, (bulletSpeed * 3) \div 2,
                           p.weaponDamage.rifle, "player")>>
          [] OTHER -> <<>>

\* A variant of Player.shoot that does not ask canShoot.
PlayerShootUnchecked(p, spread) ==
    [player |->
        [p EXCEPT !.shootCooldown = p.shootCooldownMax,
                  !.ammo[p.weaponType] = IF @ # Infinity THEN @ - 1 ELSE @],
     bullets |-> ShotBullets(p, spread)]

\* Player.shoot: the player after the shot and the bullets returned.
PlayerShoot(p, spread) ==
    IF ~PlayerCanShoot(p) THEN [player |-> p, bullets |-> <<>>]
    ELSE [player |->
            [p EXCEPT !.shootCooldown = p.shootCooldownMax,
                      !.ammo[p.weaponType] = IF @ # Infinity THEN @ - 1 ELSE @],
          bullets |-> ShotBullets(p, spread)]

\* Player.switchWeapon
PlayerSwitchWeapon(p, weapon) ==
    IF weapon \in DOMAIN p.ammo
    THEN [p EXCEPT !.weaponType = weapon,
                   !.shootCooldownMax =
                       CASE weapon = "pistol"  -> Hundredths(40)
                         [] weapon = "shotgun" -> Hundredths(80)
                         [] weapon = "rifle"   -> Hundredths(15)
                         [] OTHER -> @]
    ELSE p

\* A variant of Player.takeDamage without Math.max.
PlayerTakeDamageUnclamped(p, amount) ==
    LET health == p.health - amount
    IN  [p EXCEPT !.health = health,
                  !.markedForDeletion = IF health <= 0 THEN TRUE ELSE @]

\* Player.takeDamage
PlayerTakeDamage(p, amount) ==
    LET health == Max(0, p.health - amount)
    IN  [p EXCEPT !.health = health,
                  !.markedForDeletion = IF health <= 0 THEN TRUE ELSE @]

\* A variant of Player.heal without Math.min.
PlayerHealUncapped(p, amount) == [p EXCEPT !.health = p.health + amount]

\* Player.heal
PlayerHeal(p, amount) == [p EXCEPT !.health = Min(p.maxHealth, p.health + amount)]

\* A variant of Player.addAmmo that adds to an infinite count too.
PlayerAddAmmoAny(p, type, amount) ==
    IF type \in DOMAIN p.ammo
    THEN [p EXCEPT !.ammo[type] = @ + amount]
    ELSE p

\* Player.addAmmo
PlayerAddAmmo(p, type, amount) ==
    IF type \in DOMAIN p.ammo /\ p.ammo[type] # Infinity
    THEN [p EXCEPT !.ammo[type] = @ + amount]
    ELSE p

\* Player.onCollision(other), on the heap h
PlayerOnCollision(h, self, other) ==
    IF h[other].kind = "Zombie"
    THEN [h EXCEPT ![self] = PlayerTakeDamage(@, 10)]
    ELSE h

------------------------------------------------------------------------------
(* Zombie *)

\* Zombie.update, on the heap h (it reads its target's position)
ZombieUpdate(h, self, deltaTime) ==
    LET z == h[self]
    IN  IF z.target # Null
        THEN LET direction == normalize(Vector2D(h[z.target].x - z.x,
                                                 h[z.target].y - z.y))
             IN  [h EXCEPT ![self] =
                    [z EXCEPT !.x = @ + Step(direction.x, z.speed, deltaTime),
                              !.y = @ + Step(direction.y, z.speed, deltaTime),
                              !.attackCooldown =
                                  IF @ > 0 THEN @ - deltaTime ELSE @]]
        ELSE h

\* Zombie.takeDamage
ZombieTakeDamage(z, amount) ==
    LET health == z.health - amount
    IN  [z EXCEPT !.health = health,
                  !.markedForDeletion = IF health <= 0 THEN TRUE ELSE @]

\* Zombie.onCollision(other)
ZombieOnCollision(h, self, other) ==
    LET z == h[self]
    IN  IF h[other].kind = "Player" /\ z.attackCooldown <= 0
        THEN LET hit == IF z.target # Null
                        THEN [h EXCEPT ![z.target] = PlayerTakeDamage(@, z.damage)]
                        ELSE h
             IN  [hit EXCEPT ![self].attackCooldown = z.attackCooldownMax]
        ELSE IF h[other].kind = "Bullet" /\ h[other].source = "player"
        THEN [h EXCEPT ![self] = ZombieTakeDamage(@, h[other].damage)]
        ELSE h

------------------------------------------------------------------------------
(* Bullet *)

\* Bullet.update
BulletUpdate(b, deltaTime) ==
    LET lifespan == b.lifespan - deltaTime
    IN  [b EXCEPT !.x = @ + Div(b.velocity.x * deltaTime, TicksPerSecond),
                  !.y = @ + Div(b.velocity.y * deltaTime, TicksPerSecond),
                  !.lifespan = lifespan,
                  !.markedForDeletion = IF lifespan <= 0 THEN TRUE ELSE @]

\* A variant of Bullet.onCollision in which the projectile stays as it is.
BulletOnCollisionStaying(h, self, other) == h

\* Bullet.onCollision(other)
BulletOnCollision(h, self, other) ==
    IF \/ h[self].source = "player" /\ h[other].kind = "Zombie"
       \/ h[self].source = "enemy" /\ h[other].kind = "Player"
    THEN [h EXCEPT ![self] = markForDeletion(@)]
    ELSE h

------------------------------------------------------------------------------
(* Pickup *)

\* Pickup.onCollision(other)
PickupOnCollision(h, self, other) ==
    LET k == h[self]
    IN  IF h[other].kind = "Player"
        THEN LET applied ==
                   CASE k.type = "health" ->
                          [h EXCEPT ![other] = PlayerHeal(@, k.value)]
                     [] k.type = "ammo_pistol" ->
                          [h EXCEPT ![other] = PlayerAddAmmo(@, "pistol", k.value)]
                     [] k.type = "ammo_shotgun" ->
                          [h EXCEPT ![other] = PlayerAddAmmo(@, "shotgun", k.value)]
                     [] k.type = "ammo_rifle" ->
                          [h EXCEPT ![other] = PlayerAddAmmo(@, "rifle", k.value)]
                     [] OTHER -> h
             IN  [applied EXCEPT ![self] = markForDeletion(@)]
        ELSE h

------------------------------------------------------------------------------
(* Obstacle *)

\* The push-back of Obstacle.onCollision: the entity e moved out of obstacle o.
PushBack(o, e) ==
    LET overlapX == Min(o.x + o.width - e.x, e.x + e.width - o.x)
        overlapY == Min(o.y + o.height - e.y, e.y + e.height - o.y)
    IN  IF overlapX < overlapY
        THEN IF e.x < o.x THEN [e EXCEPT !.x = @ - overlapX]
                          ELSE [e EXCEPT !.x = @ + overlapX]
        ELSE IF e.y < o.y THEN [e EXCEPT !.y = @ - overlapY]
                          ELSE [e EXCEPT !.y = @ + overlapY]

\* Obstacle.onCollision(other)
ObstacleOnCollision(h, self, other) ==
    IF h[other].kind \in {"Player", "Zombie"}
    THEN [h EXCEPT ![other] = PushBack(h[self], @)]
    ELSE IF h[other].kind = "Bullet"
    THEN [h EXCEPT ![other] = markForDeletion(@)]
    ELSE h

------------------------------------------------------------------------------
\* entity.onCollision(other), dispatched on the receiver's class
onCollision(h, self, other) ==
    CASE h[self].kind = "Player"   -> PlayerOnCollision(h, self, other)
      [] h[self].kind = "Zombie"   -> ZombieOnCollision(h, self, other)
      [] h[self].kind = "Bullet"   -> BulletOnCollision(h, self, other)
      [] h[self].kind = "Pickup"   -> PickupOnCollision(h, self, other)
      [] h[self].kind = "Obstacle" -> ObstacleOnCollision(h, self, other)
      [] OTHER -> h

\* entity.update(deltaTime), dispatched on the receiver's class
entityUpdate(h, self, deltaTime) ==
    CASE h[self].kind = "Player" -> [h EXCEPT ![self] = PlayerUpdate(@, deltaTime)]
      [] h[self].kind = "Zombie" -> ZombieUpdate(h, self, deltaTime)
      [] h[self].kind = "Bullet" -> [h EXCEPT ![self] = BulletUpdate(@, deltaTime)]
      [] OTHER -> h

(***************************************************************************)
(* The program state as one record, threaded through the handlers.          *)
(***************************************************************************)
State ==
    [entities |-> entities, objs |-> objs, lastTimestamp |-> lastTimestamp,
     gameLoopId |-> gameLoopId, isPaused |-> isPaused,
     updateOverridden |-> updateOverridden,
     player |-> player, score |-> score, wave |-> wave,
     zombiesRemaining |-> zombiesRemaining, spawnCooldown |-> spawnCooldown,
     gameState |-> gameState, waveTimer |-> waveTimer,
     pickupSpawnTimer |-> pickupSpawnTimer, obstacles |-> obstacles,
     keys |-> keys, mouseButtons |-> mouseButtons, mousePosition |-> mousePosition,
     now |-> now, rafPending |-> rafPending, nextId |-> nextId, initPc |-> initPc,
     inputEvents |-> inputEvents, lastCall |-> lastCall,
     resumedAt |-> resumedAt, frame |-> frame]

\* The objects the program can still reach: the rest is garbage.
Reachable(s) ==
    LET roots == Range(s.entities) \cup Range(s.obstacles)
                     \cup (IF s.player # Null THEN {s.player} ELSE {})
    IN  roots \cup {s.objs[id].target :
                       id \in {r \in roots : s.objs[r].kind = "Zombie"
                                             /\ s.objs[r].target # Null}}

Collect(s) == [s EXCEPT !.objs = [id \in Reachable(s) |-> s.objs[id]]]

Install(s) ==
    \E c \in {Collect(s)} :
        /\ entities' = c.entities
        /\ objs' = c.objs
        /\ lastTimestamp' = c.lastTimestamp
        /\ gameLoopId' = c.gameLoopId
        /\ isPaused' = c.isPaused
        /\ updateOverridden' = c.updateOverridden
        /\ player' = c.player
        /\ score' = c.score
        /\ wave' = c.wave
        /\ zombiesRemaining' = c.zombiesRemaining
        /\ spawnCooldown' = c.spawnCooldown
        /\ gameState' = c.gameState
        /\ waveTimer' = c.waveTimer
        /\ pickupSpawnTimer' = c.pickupSpawnTimer
        /\ obstacles' = c.obstacles
        /\ keys' = c.keys
        /\ mouseButtons' = c.mouseButtons
        /\ mousePosition' = c.mousePosition
        /\ now' = c.now
        /\ rafPending' = c.rafPending
        /\ nextId' = c.nextId
        /\ initPc' = c.initPc
        /\ inputEvents' = c.inputEvents
        /\ lastCall' = c.lastCall
        /\ resumedAt' = c.resumedAt
        /\ frame' = c.frame

\* The history of a frame callback that has not run (yet).
\*   ran        "none", "skipped" (paused) or "processed"
\*   at         the callback's timestamp
\*   deltaTime  the deltaTime handed to update
\*   phases     the passes run, in order
\*   listed     the live list when the callback began
\*   tested     the overlap tests, <<a, b, result>>, in order
\*   calls      the onCollision calls, <<receiver, other>>, in order
\*   marked     the entities marked for deletion when the collision pass ended
\*   updated    the entities whose update ran, in order
\*   pruned     the entities the prune removed
\*   rendered   the entities drawn, in order
\*   surface    what is on the canvas: the entities drawn and, over them,
\*              the screens and texts the director has drawn since the last
\*              clearRect
\*   director   the gameState the director's gameLoop saw, or "none"
\*   started    startGame ran
\*   resumed    resumedAt when the callback began
NoFrame ==
    [ran |-> "none", at |-> 0, deltaTime |-> 0, phases |-> <<>>, listed |-> <<>>,
     tested |-> <<>>, calls |-> <<>>, marked |-> {}, updated |-> <<>>,
     pruned |-> {}, rendered |-> <<>>,
     surface |-> [entities |-> <<>>, screens |-> <<>>], director |-> "none",
     started |-> FALSE, resumed |-> <<>>]

(***************************************************************************)
(* GameEngine (engine.ts:2-125)                                             *)
(***************************************************************************)
\* GameEngine.addEntity, with the allocation of the new object e
addEntity(s, e) ==
    [s EXCEPT !.objs = (s.nextId :> e) @@ @,
              !.entities = Append(@, s.nextId),
              !.nextId = @ + 1]

RECURSIVE IndexFrom(_, _, _)
IndexFrom(list, id, i) ==
    IF i > Len(list) THEN 0
    ELSE IF list[i] = id THEN i ELSE IndexFrom(list, id, i + 1)

\* GameEngine.removeEntity
removeEntity(s, id) ==
    LET index == IndexFrom(s.entities, id, 1)
    IN  IF index # 0
        THEN [s EXCEPT !.entities =
                  SubSeq(@, 1, index - 1) \o SubSeq(@, index + 1, Len(@))]
        ELSE s

\* GameEngine.isColliding
isColliding(entityA, entityB) ==
    /\ entityA.x < entityB.x + entityB.width
    /\ entityA.x + entityA.width > entityB.x
    /\ entityA.y < entityB.y + entityB.height
    /\ entityA.y + entityA.height > entityB.y

\* A variant of CollidePair in which only entityA hears of the collision.
CollidePairOneWay(acc, list, i, j) ==
    LET a == list[i]
        b == list[j]
        hit == isColliding(acc.objs[a], acc.objs[b])
    IN  [objs   |-> IF hit THEN onCollision(acc.objs, a, b) ELSE acc.objs,
         tested |-> Append(acc.tested, <<a, b, hit>>),
         calls  |-> IF hit THEN Append(acc.calls, <<a, b>>) ELSE acc.calls]

\* The body of the inner loop of checkCollisions for the pair (i, j); acc
\* holds the heap and the history so far.
CollidePair(acc, list, i, j) ==
    LET a == list[i]
        b == list[j]
        hit == isColliding(acc.objs[a], acc.objs[b])
    IN  [objs   |-> IF hit THEN onCollision(onCollision(acc.objs, a, b), b, a)
                           ELSE acc.objs,
         tested |-> Append(acc.tested, <<a, b, hit>>),
         calls  |-> IF hit THEN acc.calls \o << <<a, b>>, <<b, a>> >>
                           ELSE acc.calls]

\* for (let j = ...; j < length; j++)
RECURSIVE InnerLoop(_, _, _, _)
InnerLoop(acc, list, i, j) ==
    IF j > Len(list) THEN acc
    ELSE LET tested == CollidePair(acc, list, i, j)
         IN  IF Done(tested) THEN InnerLoop(tested, list, i, j + 1) ELSE acc

\* for (let i = ...; i < length; i++), the inner loop starting at j = i + 1
RECURSIVE OuterLoop(_, _, _)
OuterLoop(acc, list, i) ==
    IF i > Len(list) THEN acc
    ELSE LET row == InnerLoop(acc, list, i, i + 1)
         IN  IF Done(row) THEN OuterLoop(row, list, i + 1) ELSE acc

\* GameEngine.checkCollisions
checkCollisions(s) ==
    LET done == OuterLoop([objs |-> s.objs, tested |-> <<>>, calls |-> <<>>],
                          s.entities, 1)
    IN  [s EXCEPT !.objs = done.objs,
                  !.frame.tested = done.tested,
                  !.frame.calls = done.calls,
                  !.frame.marked =
                      {id \in Range(s.entities) : isMarkedForDeletion(done.objs[id])},
                  !.frame.phases = Append(@, "collide")]

\* for (const entity of this.entities) entity.update(deltaTime)
RECURSIVE UpdateLoop(_, _, _, _)
UpdateLoop(h, list, i, deltaTime) ==
    IF i > Len(list) THEN h
    ELSE LET updated == entityUpdate(h, list[i], deltaTime)
         IN  IF Done(updated) THEN UpdateLoop(updated, list, i + 1, deltaTime)
                              ELSE h

\* A variant of the update pass that leaves out the entities marked for
\* deletion.
updateEntitiesOfLive(s, deltaTime) ==
    LET live == SelectSeq(s.entities, LAMBDA id : ~isMarkedForDeletion(s.objs[id]))
    IN  [s EXCEPT !.objs = UpdateLoop(@, live, 1, deltaTime),
                  !.frame.updated = live,
                  !.frame.phases = Append(@, "update")]

\* A variant of the update pass that drops the entities marked for deletion
\* from the list as it goes.
updateEntitiesDropping(s, deltaTime) ==
    [s EXCEPT !.objs = UpdateLoop(@, s.entities, 1, deltaTime),
              !.entities = SelectSeq(@, LAMBDA id : ~isMarkedForDeletion(s.objs[id])),
              !.frame.updated = s.entities,
              !.frame.phases = Append(@, "update")]

\* The update pass of GameEngine.update
updateEntities(s, deltaTime) ==
    [s EXCEPT !.objs = UpdateLoop(@, s.entities, 1, deltaTime),
              !.frame.updated = s.entities,
              !.frame.phases = Append(@, "update")]

\* this.entities = this.entities.filter(entity => !entity.isMarkedForDeletion())
prune(s) ==
    [s EXCEPT !.entities = SelectSeq(@, LAMBDA id : ~isMarkedForDeletion(s.objs[id])),
              !.frame.pruned =
                  {id \in Range(s.entities) : isMarkedForDeletion(s.objs[id])},
              !.frame.phases = Append(@, "prune")]

\* A variant of GameEngine.update that prunes before it updates.
originalUpdatePruneFirst(s, deltaTime) ==
    updateEntities(prune(checkCollisions(s)), deltaTime)

\* GameEngine.update as written in engine.ts (originalUpdate in game.ts:96)
originalUpdate(s, deltaTime) ==
    prune(updateEntities(checkCollisions(s), deltaTime))

\* GameEngine.render
render(s) ==
    [s EXCEPT !.frame.surface = [entities |-> s.entities, screens |-> <<>>],
              !.frame.rendered = s.entities,
              !.frame.phases = Append(@, "render")]

\* requestAnimationFrame(callback): a handle not in use
requestAnimationFrame(s) ==
    LET handle == CHOOSE n \in 1..(Cardinality(s.rafPending) + 1) :
                      n \notin s.rafPending
    IN  [s EXCEPT !.rafPending = @ \cup {handle}, !.gameLoopId = handle]

\* GameEngine.pause
pause(s) == [s EXCEPT !.isPaused = TRUE]

\* A variant of GameEngine.resume that keeps the lastTimestamp of the frame
\* before the pause.
resumeKeepsClock(s) ==
    IF s.isPaused
    THEN [s EXCEPT !.isPaused = FALSE, !.resumedAt = <<s.now>>]
    ELSE s

\* GameEngine.resume
resume(s) ==
    IF s.isPaused
    THEN [s EXCEPT !.isPaused = FALSE, !.lastTimestamp = s.now,
                   !.resumedAt = <<s.now>>]
    ELSE s

\* GameEngine.stop
stop(s) ==
    IF s.gameLoopId # Null
    THEN [s EXCEPT !.rafPending = @ \ {s.gameLoopId}, !.gameLoopId = Null]
    ELSE s

(***************************************************************************)
(* Math.random().  A draw is a whole number of hundredths, 0..99, standing  *)
(* for a value in [0, 1).  rnd holds the draws one frame may consume:       *)
(*   type, side, edge    spawnZombie: the type roll, the side, the place    *)
(*   pickupType          spawnPickup: the kind                              *)
(*   pickupAt            spawnPickup: the positions tried, [x, y] draws     *)
(*   obstacles           createObstacles: [w, h, x, y] draws, one per pass  *)
(*   spread              Player.shoot: the shotgun's spread angles          *)
(***************************************************************************)
\* Math.random() * range for the draw r
Random(r, range) == (r * range) \div 100

(***************************************************************************)
(* ZombieShooterGame (game.ts)                                              *)
(***************************************************************************)
\* ctx.clearRect(0, 0, canvas.width, canvas.height)
clearRect(s) == [s EXCEPT !.frame.surface = [entities |-> <<>>, screens |-> <<>>]]

\* The director draws a screen or a text over what the canvas holds.
Draw(s, what) == [s EXCEPT !.frame.surface.screens = Append(@, what)]

\* InputHandler.isKeyDown
isKeyDown(s, key) == key \in s.keys

\* A variant of startWave whose count does not grow with the wave.
startWaveFlat(s) ==
    LET baseZombies == 5
        zombiesPerWave == baseZombies + 2
    IN  [s EXCEPT !.zombiesRemaining = zombiesPerWave, !.spawnCooldown = 0]

\* ZombieShooterGame.startWave
startWave(s) ==
    LET baseZombies == 5
        zombiesPerWave == baseZombies + s.wave * 2
    IN  [s EXCEPT !.zombiesRemaining = zombiesPerWave, !.spawnCooldown = 0]

\* One obstacle added to the engine and to the director's list.
AddObstacle(s, o) ==
    LET added == addEntity(s, o)
    IN  [added EXCEPT !.obstacles = Append(@, s.nextId)]

\* The loop of createObstacles (game.ts:160-184) from pass i on.
RECURSIVE RandomObstacles(_, _, _)
RandomObstacles(s, draws, i) ==
    IF i > Len(draws) THEN s
    ELSE LET wallThickness == 20
             width == Random(draws[i].w, 80) + 40
             height == Random(draws[i].h, 80) + 40
             x == Random(draws[i].x, MapWidth - width - 2 * wallThickness)
                      + wallThickness
             y == Random(draws[i].y, MapHeight - height - 2 * wallThickness)
                      + wallThickness
             playerBuffer == 100
             playerCenterX == MapWidth \div 2
             playerCenterY == MapHeight \div 2
         IN  IF /\ x > playerCenterX - playerBuffer
                /\ x < playerCenterX + playerBuffer
                /\ y > playerCenterY - playerBuffer
                /\ y < playerCenterY + playerBuffer
             THEN RandomObstacles(s, draws, i + 1)
             ELSE RandomObstacles(AddObstacle(s, NewObstacle(x, y, width, height)),
                                  draws, i + 1)

\* ZombieShooterGame.createObstacles
createObstacles(s, draws) ==
    LET wallThickness == 20
        cleared == [s EXCEPT !.obstacles = <<>>]
        top == AddObstacle(cleared, NewObstacle(0, 0, MapWidth, wallThickness))
        bottom == AddObstacle(top, NewObstacle(0, MapHeight - wallThickness,
                                               MapWidth, wallThickness))
        left == AddObstacle(bottom, NewObstacle(0, 0, wallThickness, MapHeight))
        right == AddObstacle(left, NewObstacle(MapWidth - wallThickness, 0,
                                               wallThickness, MapHeight))
    IN  RandomObstacles(right, draws, 1)

\* A variant of startGame that keeps the engine's entities.
startGameKeepsEntities(s, rnd) ==
    LET reset == [s EXCEPT !.score = 0, !.wave = 1, !.waveTimer = 0,
                           !.pickupSpawnTimer = 0, !.player = s.nextId]
        withPlayer == addEntity(reset, NewPlayer(MapWidth \div 2 - 20,
                                                 MapHeight \div 2 - 20))
        started == startWave(createObstacles(withPlayer, rnd.obstacles))
    IN  [started EXCEPT !.gameState = "playing", !.frame.started = TRUE]

\* ZombieShooterGame.startGame
startGame(s, rnd) ==
    LET reset == [s EXCEPT !.score = 0, !.wave = 1, !.waveTimer = 0,
                           !.pickupSpawnTimer = 0, !.entities = <<>>,
                           !.player = s.nextId]
        withPlayer == addEntity(reset, NewPlayer(MapWidth \div 2 - 20,
                                                 MapHeight \div 2 - 20))
        started == startWave(createObstacles(withPlayer, rnd.obstacles))
    IN  [started EXCEPT !.gameState = "playing", !.frame.started = TRUE]

\* ZombieShooterGame.handlePlayerInput
handlePlayerInput(s, deltaTime, rnd) ==
    LET moveY == IF isKeyDown(s, "s") \/ isKeyDown(s, "ArrowDown") THEN 1
                 ELSE IF isKeyDown(s, "w") \/ isKeyDown(s, "ArrowUp") THEN -1
                 ELSE 0
        moveX == IF isKeyDown(s, "d") \/ isKeyDown(s, "ArrowRight") THEN 1
                 ELSE IF isKeyDown(s, "a") \/ isKeyDown(s, "ArrowLeft") THEN -1
                 ELSE 0
        p0 == s.objs[s.player]
        moved == IF moveX # 0 \/ moveY # 0
                 THEN PlayerMove(p0, Vector2D(moveX, moveY), deltaTime)
                 ELSE p0
        aimDirection == Vector2D(s.mousePosition.x - (moved.x + moved.width \div 2),
                                 s.mousePosition.y - (moved.y + moved.height \div 2))
        aimed == PlayerSetDirection(moved, aimDirection)
        fires == s.mouseButtons /\ PlayerCanShoot(aimed)
        shot == PlayerShoot(aimed, rnd.spread)
        p1 == IF fires THEN shot.player ELSE aimed
        p2 == IF isKeyDown(s, "1") THEN PlayerSwitchWeapon(p1, "pistol")
              ELSE IF isKeyDown(s, "2") THEN PlayerSwitchWeapon(p1, "shotgun")
              ELSE IF isKeyDown(s, "3") THEN PlayerSwitchWeapon(p1, "rifle")
              ELSE p1
        bullets == IF fires THEN shot.bullets ELSE <<>>
        n == Len(bullets)
    IN  [s EXCEPT !.objs = [id \in (DOMAIN s.objs) \cup (s.nextId..(s.nextId + n - 1)) |->
                               IF id = s.player THEN p2
                               ELSE IF id \in DOMAIN s.objs THEN s.objs[id]
                               ELSE bullets[id - s.nextId + 1]],
                  !.entities = @ \o [i \in 1..n |-> s.nextId + i - 1],
                  !.nextId = @ + n,
                  !.mouseButtons = IF fires THEN FALSE ELSE @]

\* ZombieShooterGame.spawnZombie
spawnZombie(s, rnd) ==
    IF s.player = Null THEN s
    ELSE LET zombieType == IF s.wave >= 3 /\ rnd.type < 20 THEN "fast"
                           ELSE IF s.wave >= 5 /\ rnd.type < 10 THEN "tank"
                           ELSE "normal"
             spawnSide == Random(rnd.side, 4)
             buffer == 50
             x == CASE spawnSide = 0 -> Random(rnd.edge, MapWidth)
                    [] spawnSide = 1 -> MapWidth + buffer
                    [] spawnSide = 2 -> Random(rnd.edge, MapWidth)
                    [] spawnSide = 3 -> -buffer
             y == CASE spawnSide = 0 -> -buffer
                    [] spawnSide = 1 -> Random(rnd.edge, MapHeight)
                    [] spawnSide = 2 -> MapHeight + buffer
                    [] spawnSide = 3 -> Random(rnd.edge, MapHeight)
             zombie == [NewZombie(x, y, zombieType) EXCEPT !.target = s.player]
         IN  addEntity(s, zombie)

\* ZombieShooterGame.updateZombieSpawning
updateZombieSpawning(s, deltaTime, rnd) ==
    IF s.spawnCooldown > 0
    THEN [s EXCEPT !.spawnCooldown = @ - deltaTime]
    ELSE IF s.zombiesRemaining > 0
    THEN [spawnZombie(s, rnd) EXCEPT
             !.zombiesRemaining = @ - 1,
             !.spawnCooldown = Hundredths(150)
                                 - Min(Hundredths(130), s.wave * Hundredths(10))]
    ELSE s

\* The pickup position (x, y) overlaps an obstacle of the director's list.
OverlapsObstacle(s, x, y) ==
    \E i \in DOMAIN s.obstacles :
        LET obstacle == s.objs[s.obstacles[i]]
        IN  /\ x < obstacle.x + obstacle.width
            /\ x + 20 > obstacle.x
            /\ y < obstacle.y + obstacle.height
            /\ y + 20 > obstacle.y

\* The position drawn for a pickup.
PickupPosition(draw) ==
    LET wallBuffer == 40
    IN  Vector2D(Random(draw.x, MapWidth - 2 * wallBuffer) + wallBuffer,
                 Random(draw.y, MapHeight - 2 * wallBuffer) + wallBuffer)

\* A variant of the while loop of spawnPickup that tests one position more.
RECURSIVE PlacePickupOnceMore(_, _, _, _)
PlacePickupOnceMore(s, at, tries, attempts) ==
    LET maxAttempts == 10
    IN  IF attempts > maxAttempts THEN [valid |-> FALSE, at |-> at]
        ELSE IF OverlapsObstacle(s, at.x, at.y)
        THEN PlacePickupOnceMore(s, PickupPosition(tries[Min(attempts + 2, 11)]),
                                 tries, attempts + 1)
        ELSE [valid |-> TRUE, at |-> at]

\* The while loop of spawnPickup (game.ts:424-443): at is the position under
\* test, tries[attempts + 2] the next one drawn.  The result is the valid
\* position, or Null when maxAttempts positions overlapped.
RECURSIVE PlacePickup(_, _, _, _)
PlacePickup(s, at, tries, attempts) ==
    LET maxAttempts == 10
    IN  IF attempts >= maxAttempts THEN [valid |-> FALSE, at |-> at]
        ELSE IF OverlapsObstacle(s, at.x, at.y)
        THEN PlacePickup(s, PickupPosition(tries[attempts + 2]), tries, attempts + 1)
        ELSE [valid |-> TRUE, at |-> at]

\* ZombieShooterGame.spawnPickup
spawnPickup(s, rnd) ==
    LET pickupTypes == <<"health", "ammo_pistol", "ammo_shotgun", "ammo_rifle">>
        type == pickupTypes[Random(rnd.pickupType, Len(pickupTypes)) + 1]
        value == CASE type = "health" -> 25
                   [] type = "ammo_pistol" -> 15
                   [] type = "ammo_shotgun" -> 5
                   [] type = "ammo_rifle" -> 10
        placed == PlacePickup(s, PickupPosition(rnd.pickupAt[1]), rnd.pickupAt, 0)
    IN  IF ~placed.valid THEN s
        ELSE addEntity(s, NewPickup(placed.at.x, placed.at.y, type, value))

\* ZombieShooterGame.updatePickupSpawning
updatePickupSpawning(s, deltaTime, rnd) ==
    LET pickupSpawnInterval == Seconds(15)
        timer == s.pickupSpawnTimer + deltaTime
    IN  IF timer >= pickupSpawnInterval
        THEN [spawnPickup(s, rnd) EXCEPT !.pickupSpawnTimer = 0]
        ELSE [s EXCEPT !.pickupSpawnTimer = timer]

\* The wave timer and the spawning of ZombieShooterGame.update (game.ts:203-214)
updateWave(s, deltaTime, rnd) ==
    LET waveDelay == Seconds(5)
    IN  IF s.zombiesRemaining <= 0
        THEN IF s.waveTimer + deltaTime >= waveDelay
             THEN [startWave([s EXCEPT !.wave = @ + 1]) EXCEPT !.waveTimer = 0]
             ELSE [s EXCEPT !.waveTimer = @ + deltaTime]
        ELSE updateZombieSpawning(s, deltaTime, rnd)

\* The death and pause checks of ZombieShooterGame.update (game.ts:219-228)
checkDeathAndPause(s) ==
    LET dead == IF isMarkedForDeletion(s.objs[s.player])
                THEN [s EXCEPT !.gameState = "gameOver"]
                ELSE s
    IN  IF isKeyDown(dead, "Escape")
        THEN pause([dead EXCEPT !.gameState = "paused"])
        ELSE dead

\* ZombieShooterGame.update
directorUpdate(s, deltaTime, rnd) ==
    IF s.player = Null THEN s
    ELSE Draw(checkDeathAndPause(
                  updatePickupSpawning(
                      updateWave(handlePlayerInput(s, deltaTime, rnd), deltaTime, rnd),
                      deltaTime, rnd)),
              "ui")

\* InputHandler.resetMouseButton(0)
resetMouseButton(s) == [s EXCEPT !.mouseButtons = FALSE]

\* ZombieShooterGame.handleTitleScreenInput
handleTitleScreenInput(s, rnd) ==
    IF s.mouseButtons THEN resetMouseButton(startGame(s, rnd)) ELSE s

\* ZombieShooterGame.handlePauseScreenInput
handlePauseScreenInput(s, rnd) ==
    IF isKeyDown(s, "Escape")
    THEN resume([s EXCEPT !.gameState = "playing"])
    ELSE IF s.mouseButtons
    THEN resetMouseButton(resume(startGame(s, rnd)))
    ELSE s

\* ZombieShooterGame.handleGameOverScreenInput
handleGameOverScreenInput(s, rnd) ==
    IF s.mouseButtons THEN resetMouseButton(startGame(s, rnd)) ELSE s

\* The closure gameLoop of setupEventListeners (game.ts:72-93)
directorGameLoop(s, deltaTime, rnd) ==
    LET seen == [s EXCEPT !.frame.director = s.gameState,
                          !.frame.phases = Append(@, "director")]
    IN  CASE s.gameState = "loading" -> Draw(clearRect(seen), "loading")
          [] s.gameState = "title" ->
                handleTitleScreenInput(Draw(clearRect(seen), "title"), rnd)
          [] s.gameState = "playing" -> directorUpdate(seen, deltaTime, rnd)
          [] s.gameState = "paused" ->
                handlePauseScreenInput(Draw(seen, "pause"), rnd)
          [] s.gameState = "gameOver" ->
                handleGameOverScreenInput(Draw(seen, "gameOver"), rnd)

\* this.update(deltaTime) of the engine: the method of engine.ts, or the
\* override installed by setupEventListeners (game.ts:96-100)
update(s, deltaTime, rnd) ==
    IF s.updateOverridden
    THEN directorGameLoop(originalUpdate(s, deltaTime), deltaTime, rnd)
    ELSE originalUpdate(s, deltaTime)

\* A variant of gameLoop that asks for the next frame only after the pause
\* check.
gameLoopPauseFirst(s, timestamp, rnd) ==
    IF s.isPaused
    THEN [s EXCEPT !.frame =
             [NoFrame EXCEPT !.ran = "skipped", !.at = timestamp,
                             !.listed = s.entities,
                             !.surface = s.frame.surface]]
    ELSE LET requested == requestAnimationFrame(s)
             deltaTime == timestamp - s.lastTimestamp
             begun == [requested EXCEPT
                          !.lastTimestamp = timestamp,
                          !.resumedAt = <<>>,
                          !.frame = [NoFrame EXCEPT
                                        !.ran = "processed", !.at = timestamp,
                                        !.deltaTime = deltaTime,
                                        !.resumed = s.resumedAt,
                                        !.listed = s.entities,
                                        !.surface = s.frame.surface]]
         IN  render(update(begun, deltaTime, rnd))

\* GameEngine.gameLoop(timestamp)
gameLoop(s, timestamp, rnd) ==
    LET requested == requestAnimationFrame(s)
    IN  IF s.isPaused
        THEN [requested EXCEPT !.frame =
                 [NoFrame EXCEPT !.ran = "skipped", !.at = timestamp,
                                 !.listed = s.entities,
                                 !.surface = s.frame.surface]]
        ELSE LET deltaTime == timestamp - s.lastTimestamp
                 begun == [requested EXCEPT
                              !.lastTimestamp = timestamp,
                              !.resumedAt = <<>>,
                              !.frame = [NoFrame EXCEPT
                                            !.ran = "processed", !.at = timestamp,
                                            !.deltaTime = deltaTime,
                                            !.resumed = s.resumedAt,
                                            !.listed = s.entities,
                                            !.surface = s.frame.surface]]
             IN  render(update(begun, deltaTime, rnd))

\* A variant of GameEngine.start that does not look at gameLoopId.
startAgain(s, rnd) == gameLoop([s EXCEPT !.lastTimestamp = s.now], s.now, rnd)

\* GameEngine.start
start(s, rnd) ==
    IF s.gameLoopId = Null
    THEN gameLoop([s EXCEPT !.lastTimestamp = s.now], s.now, rnd)
    ELSE s

\* ZombieShooterGame.setupEventListeners
setupEventListeners(s) == [s EXCEPT !.updateOverridden = TRUE]

\* ZombieShooterGame.init once every asset has loaded (game.ts:56-63)
initLoaded(s, rnd) ==
    setupEventListeners(start([s EXCEPT !.gameState = "title"], rnd))

\* ZombieShooterGame.init when a load is rejected (game.ts:64-67)
initFailed(s) == [s EXCEPT !.gameState = "title"]

(***************************************************************************)
(* The environment: the draws, the frame times and the input events the     *)
(* model explores.                                                          *)
(***************************************************************************)
\* The time between two frame callbacks, in ticks.
DeltaTimes == {Seconds(1)}

\* Math.random() draws explored, per use.
TypeDraws == {15, 50}
SideDraws == {0, 50}
EdgeDraws == {40}
PickupTypeDraws == {0, 50}
PickupAtDraws == {[x |-> 0, y |-> 0], [x |-> 50, y |-> 10]}
ObstacleLayouts ==
    {[i \in 1..5 |-> IF i = 1 THEN [w |-> 0, h |-> 0, x |-> 0, y |-> 0]
                              ELSE [w |-> 0, h |-> 0, x |-> 50, y |-> 50]]}
SpreadDraws == {[cos |-> Unit, sin |-> 0], [cos |-> 969, sin |-> 247]}

\* The keys the user presses.
InputKeys == {"Escape"}

\* The draws a frame consumes when none is needed.
NoDraws ==
    [type |-> 50, side |-> 0, edge |-> 0, pickupType |-> 0,
     pickupAt |-> [i \in 1..11 |-> [x |-> 0, y |-> 0]],
     obstacles |-> [i \in 1..5 |-> [w |-> 0, h |-> 0, x |-> 50, y |-> 50]],
     spread |-> [i \in 1..5 |-> [cos |-> Unit, sin |-> 0]]]

\* The draws explored for a frame of deltaTime from s: each component ranges
\* over its draws when the frame can reach the Math.random() call it feeds
\* and is pinned otherwise.
Draws(s, deltaTime) ==
    LET directs == s.updateOverridden /\ ~s.isPaused
        playing == directs /\ s.gameState = "playing" /\ s.player # Null
        spawns == playing /\ s.zombiesRemaining > 0 /\ s.spawnCooldown <= 0
        drops == playing /\ s.pickupSpawnTimer + deltaTime >= Seconds(15)
        starts == directs /\ s.mouseButtons
                          /\ s.gameState \in {"title", "paused", "gameOver"}
        pellets == playing /\ s.mouseButtons
                           /\ s.objs[s.player].weaponType = "shotgun"
    IN  {[type |-> t, side |-> d, edge |-> e, pickupType |-> k,
          pickupAt |-> [i \in 1..11 |-> IF i = 1 THEN a ELSE b],
          obstacles |-> o,
          spread |-> [i \in 1..5 |-> IF i = 1 THEN p ELSE NoDraws.spread[i]]] :
            t \in IF spawns THEN TypeDraws ELSE {NoDraws.type},
            d \in IF spawns THEN SideDraws ELSE {NoDraws.side},
            e \in IF spawns THEN EdgeDraws ELSE {NoDraws.edge},
            k \in IF drops THEN PickupTypeDraws ELSE {NoDraws.pickupType},
            a \in IF drops THEN PickupAtDraws ELSE {NoDraws.pickupAt[1]},
            b \in IF drops THEN PickupAtDraws ELSE {NoDraws.pickupAt[1]},
            o \in IF starts THEN ObstacleLayouts ELSE {NoDraws.obstacles},
            p \in IF pellets THEN SpreadDraws ELSE {NoDraws.spread[1]}}

(***************************************************************************)
(* The game in the browser.                                                 *)
(***************************************************************************)
\* The state once new ZombieShooterGame(canvas) has returned: init() is
\* waiting for its first asset.
Init ==
    /\ entities = <<>>
    /\ objs = <<>>
    /\ lastTimestamp = 0
    /\ gameLoopId = Null
    /\ isPaused = FALSE
    /\ updateOverridden = FALSE
    /\ player = Null
    /\ score = 0
    /\ wave = 1
    /\ zombiesRemaining = 0
    /\ spawnCooldown = 0
    /\ gameState = "loading"
    /\ waveTimer = 0
    /\ pickupSpawnTimer = 0
    /\ obstacles = <<>>
    /\ keys = {}
    /\ mouseButtons = FALSE
    /\ mousePosition = Vector2D(0, 0)
    /\ now = 0
    /\ rafPending = {}
    /\ nextId = 1
    /\ initPc = "loading"
    /\ inputEvents = 0
    /\ lastCall = [op |-> "none", arg |-> Null]
    /\ resumedAt = <<>>
    /\ frame = NoFrame

\* Every asset has loaded: init() runs to its end.
AssetsLoaded ==
    /\ initPc = "loading"
    /\ Install(initLoaded([State EXCEPT !.initPc = "loaded"], NoDraws))

\* A load is rejected: init() runs its catch block.
AssetLoadFails ==
    /\ initPc = "loading"
    /\ Install(initFailed([State EXCEPT !.initPc = "failed"]))

\* The browser runs a pending frame callback, deltaTime after the last one.
FrameCallback ==
    \E handle \in rafPending, deltaTime \in DeltaTimes :
        /\ now + deltaTime <= MaxTime
        /\ LET fired == [State EXCEPT !.now = now + deltaTime,
                                      !.rafPending = @ \ {handle}]
           IN  \E rnd \in Draws(State, deltaTime) :
                   Install(gameLoop(fired, now + deltaTime, rnd))

\* The variables an input event leaves alone.
notInput == <<entities, objs, lastTimestamp, gameLoopId, isPaused,
              updateOverridden, player, score, wave, zombiesRemaining,
              spawnCooldown, gameState, waveTimer, pickupSpawnTimer, obstacles,
              now, rafPending, nextId, initPc, lastCall, resumedAt, frame>>

\* One more input event of the user.
InputEvent == inputEvents < MaxInputs /\ inputEvents' = inputEvents + 1

\* keydown (engine.ts:205-207)
KeyDown ==
    \E key \in InputKeys :
        /\ InputEvent
        /\ key \notin keys
        /\ keys' = keys \cup {key}
        /\ UNCHANGED <<notInput, mouseButtons, mousePosition>>

\* keyup (engine.ts:209-211)
KeyUp ==
    \E key \in InputKeys :
        /\ InputEvent
        /\ key \in keys
        /\ keys' = keys \ {key}
        /\ UNCHANGED <<notInput, mouseButtons, mousePosition>>

\* mousedown of button 0 (engine.ts:220-222)
MouseDown ==
    /\ InputEvent
    /\ ~mouseButtons
    /\ mouseButtons' = TRUE
    /\ UNCHANGED <<notInput, keys, mousePosition>>

\* mouseup of button 0 (engine.ts:224-226)
MouseUp ==
    /\ InputEvent
    /\ mouseButtons
    /\ mouseButtons' = FALSE
    /\ UNCHANGED <<notInput, keys, mousePosition>>

Next ==
    \/ AssetsLoaded
    \/ AssetLoadFails
    \/ FrameCallback
    \/ KeyDown
    \/ KeyUp
    \/ MouseDown
    \/ MouseUp

Spec == Init /\ [][Next]_vars

(***************************************************************************)
(* The engine on its own: a client that calls the public methods of         *)
(* GameEngine in any order, between the frame callbacks of the browser.     *)
(***************************************************************************)
\* The entities the client holds at most, its calls in one run, and the
\* time its run takes.
MaxEntities == 2
MaxCalls == 4
MaxEngineTime == 80

\* One more call of the client.
ClientCall == inputEvents < MaxCalls
Called(s) == [s EXCEPT !.inputEvents = @ + 1]

\* The call op(arg) was the client's last.
Calling(s, op, arg) == [s EXCEPT !.lastCall = [op |-> op, arg |-> arg]]

\* The entities the client adds: a slow bullet and a zombie in its way.
ClientEntities ==
    {NewBullet(0, 0, Vector2D(1, 0), 10, 25, "player"), NewZombie(10, 0, "normal")}

\* engine.start(); lastCall.arg is the gameLoopId the call found
ClientStart ==
    /\ ClientCall
    /\ Install(Called(Calling(start(State, NoDraws), "start", gameLoopId)))

\* engine.stop(); lastCall.arg is the gameLoopId the call found
ClientStop ==
    /\ ClientCall
    /\ Install(Called(Calling(stop(State), "stop", gameLoopId)))

\* engine.pause()
ClientPause ==
    /\ ClientCall
    /\ Install(Called(Calling(pause(State), "pause", Null)))

\* engine.resume()
ClientResume ==
    /\ ClientCall
    /\ Install(Called(Calling(resume(State), "resume", Null)))

\* engine.addEntity(entity)
ClientAddEntity ==
    \E e \in ClientEntities :
        /\ ClientCall
        /\ Len(entities) < MaxEntities
        /\ Install(Called(Calling(addEntity(State, e), "addEntity", nextId)))

\* engine.removeEntity(entity)
ClientRemoveEntity ==
    \E id \in Range(entities) :
        /\ ClientCall
        /\ Install(Called(Calling(removeEntity(State, id), "removeEntity", id)))

\* Half a second goes by with no event.
TimePasses ==
    /\ now + Hundredths(50) <= MaxEngineTime
    /\ Install([State EXCEPT !.now = now + Hundredths(50)])

\* A frame callback within the client's run.
EngineFrame == now + Seconds(1) <= MaxEngineTime /\ FrameCallback

EngineNext ==
    \/ ClientStart
    \/ ClientStop
    \/ ClientPause
    \/ ClientResume
    \/ ClientAddEntity
    \/ ClientRemoveEntity
    \/ TimePasses
    \/ EngineFrame

EngineSpec == Init /\ [][EngineNext]_vars

(***************************************************************************)
(* The Player on its own: a caller that applies takeDamage and heal, and    *)
(* the collision handlers of an enemy or a pickup in contact with it, in    *)
(* any order, to a Player of any health left.                               *)
(***************************************************************************)
\* The state once new ZombieShooterGame(canvas) has returned, as a record.
Constructed ==
    [entities |-> <<>>, objs |-> <<>>, lastTimestamp |-> 0, gameLoopId |-> Null,
     isPaused |-> FALSE, updateOverridden |-> FALSE, player |-> Null,
     score |-> 0, wave |-> 1, zombiesRemaining |-> 0, spawnCooldown |-> 0,
     gameState |-> "loading", waveTimer |-> 0, pickupSpawnTimer |-> 0,
     obstacles |-> <<>>, keys |-> {}, mouseButtons |-> FALSE,
     mousePosition |-> Vector2D(0, 0), now |-> 0, rafPending |-> {},
     nextId |-> 1, initPc |-> "loading", inputEvents |-> 0,
     lastCall |-> [op |-> "none", arg |-> Null], resumedAt |-> <<>>,
     frame |-> NoFrame]

\* The variables hold the state s.
StartsAs(s) ==
    /\ entities = s.entities
    /\ objs = s.objs
    /\ lastTimestamp = s.lastTimestamp
    /\ gameLoopId = s.gameLoopId
    /\ isPaused = s.isPaused
    /\ updateOverridden = s.updateOverridden
    /\ player = s.player
    /\ score = s.score
    /\ wave = s.wave
    /\ zombiesRemaining = s.zombiesRemaining
    /\ spawnCooldown = s.spawnCooldown
    /\ gameState = s.gameState
    /\ waveTimer = s.waveTimer
    /\ pickupSpawnTimer = s.pickupSpawnTimer
    /\ obstacles = s.obstacles
    /\ keys = s.keys
    /\ mouseButtons = s.mouseButtons
    /\ mousePosition = s.mousePosition
    /\ now = s.now
    /\ rafPending = s.rafPending
    /\ nextId = s.nextId
    /\ initPc = s.initPc
    /\ inputEvents = s.inputEvents
    /\ lastCall = s.lastCall
    /\ resumedAt = s.resumedAt
    /\ frame = s.frame

\* The largest amount the caller passes to takeDamage and heal.
MaxAmount == 12

\* The calls in one run of the caller.
MaxPlayerCalls == 3

\* A Player of the given health, held by the game and the engine.
WithPlayer(health) ==
    LET made == addEntity([Constructed EXCEPT !.player = Constructed.nextId,
                                              !.initPc = "caller"],
                          NewPlayer(MapWidth \div 2 - 20, MapHeight \div 2 - 20))
    IN  [made EXCEPT !.objs[made.player].health = health]

PlayerInit == \E health \in 1..100 : StartsAs(WithPlayer(health))

\* One more call; lastCall.arg tells the argument and the health found.
PlayerCall(s, op, what) ==
    Called(Calling(s, op, [what |-> what, health |-> objs[player].health]))

\* player.takeDamage(amount)
TakeDamage ==
    \E amount \in 0..MaxAmount :
        /\ inputEvents < MaxPlayerCalls
        /\ Install(PlayerCall([State EXCEPT !.objs[player] =
                                                PlayerTakeDamage(@, amount)],
                              "takeDamage", amount))

\* player.heal(amount)
Heal ==
    \E amount \in 0..MaxAmount :
        /\ inputEvents < MaxPlayerCalls
        /\ Install(PlayerCall([State EXCEPT !.objs[player] = PlayerHeal(@, amount)],
                              "heal", amount))

\* A collision pass finds an enemy of some type, ready to attack, on the
\* Player: player.onCollision(enemy), then enemy.onCollision(player).
EnemyContact ==
    \E type \in {"normal", "fast", "tank"} :
        /\ inputEvents < MaxPlayerCalls
        /\ LET enemy == nextId
               met == (enemy :> [NewZombie(objs[player].x, objs[player].y, type)
                                    EXCEPT !.target = player]) @@ objs
               hit == onCollision(onCollision(met, player, enemy), enemy, player)
           IN  Install(PlayerCall([State EXCEPT !.objs = hit], "enemy", type))

\* A collision pass finds a pickup on the Player: player.onCollision(pickup),
\* then pickup.onCollision(player).
PickupContact ==
    \E kind \in {[type |-> "health", value |-> 25],
                  [type |-> "ammo_shotgun", value |-> 5]} :
        /\ inputEvents < MaxPlayerCalls
        /\ LET pickup == nextId
               met == (pickup :> NewPickup(objs[player].x, objs[player].y,
                                           kind.type, kind.value)) @@ objs
               hit == onCollision(onCollision(met, player, pickup), pickup, player)
           IN  Install(PlayerCall([State EXCEPT !.objs = hit], "pickup", kind.type))

PlayerNext ==
    \/ TakeDamage
    \/ Heal
    \/ EnemyContact
    \/ PickupContact

PlayerSpec == PlayerInit /\ [][PlayerNext]_vars

(***************************************************************************)
(* A game left to run through its waves: the user clicks on the title       *)
(* screen and frames follow one another, a quarter of a second apart.       *)
(***************************************************************************)
\* The time between two frames of the run, in ticks.
WaveDelta == Hundredths(25)

\* The time the run lasts, in ticks.
MaxWaveTime == 1960

\* The draws of the run: every zombie comes from the top edge.
WaveDraws == [NoDraws EXCEPT !.edge = 40]

\* The title screen is up and the mouse button has just gone down.
WaveInit ==
    StartsAs([initLoaded([Constructed EXCEPT !.initPc = "loaded"], NoDraws)
                 EXCEPT !.mouseButtons = TRUE])

\* The browser runs the pending frame callback, WaveDelta after the last one.
WaveFrame ==
    \E handle \in rafPending :
        /\ now + WaveDelta <= MaxWaveTime
        /\ Install(gameLoop([State EXCEPT !.now = now + WaveDelta,
                                          !.rafPending = @ \ {handle}],
                            now + WaveDelta, WaveDraws))

WaveNext == WaveFrame

WaveSpec == WaveInit /\ [][WaveNext]_vars

(***************************************************************************)
(* spawnZombie on its own: a game that has reached some wave, and one call  *)
(* of spawnZombie for every value Math.random() can give the type.          *)
(***************************************************************************)
\* The waves the game has reached.
MaxWave == 6

\* The calls of spawnZombie in one run.
MaxSpawns == 1

\* A game started from the title screen that has come to the given wave.
AtWave(n) ==
    LET loaded == initLoaded([Constructed EXCEPT !.initPc = "loaded"], NoDraws)
    IN  startWave([startGame(loaded, WaveDraws) EXCEPT !.wave = n])

SpawnInit == \E n \in 1..MaxWave : \E reached \in {AtWave(n)} : StartsAs(reached)

\* this.spawnZombie(), the type drawn being r hundredths.
SpawnZombie ==
    \E r \in 0..99 :
        /\ inputEvents < MaxSpawns
        /\ Install(Called(Calling(spawnZombie(State, [WaveDraws EXCEPT !.type = r]),
                                  "spawnZombie", r)))

SpawnNext == SpawnZombie

SpawnSpec == SpawnInit /\ [][SpawnNext]_vars

(***************************************************************************)
(* Close combat: an enemy has reached the Player, who holds one of the      *)
(* weapons and has just pressed the mouse button; frames follow one         *)
(* another, a quarter of a second apart.                                    *)
(***************************************************************************)
\* The time the fight lasts, in ticks.
MaxCombatTime == 60

\* The weapons of the Player and the types of the enemies.
Weapons == {"pistol", "shotgun", "rifle"}
ZombieTypes == {"normal", "fast", "tank"}

\* How far to the right of the Player's position the enemy stands.
ContactOffsets == {0, 10}

\* The game started with an enemy of the type on the Player, the weapon
\* chosen and the button down.
InContact(started, type, offset, weapon) ==
    LET p == started.objs[started.player]
        met == addEntity(started, [NewZombie(p.x + offset, p.y, type)
                                      EXCEPT !.target = started.player])
    IN  [met EXCEPT !.objs[started.player] = PlayerSwitchWeapon(@, weapon),
                    !.mouseButtons = TRUE,
                    !.mousePosition = Vector2D(MapWidth, p.y + p.height \div 2)]

CombatInit ==
    \E type \in ZombieTypes, offset \in ContactOffsets, weapon \in Weapons :
        \E started \in {AtWave(1)} :
            \E met \in {InContact(started, type, offset, weapon)} : StartsAs(met)

\* The browser runs the pending frame callback, WaveDelta after the last one.
CombatFrame ==
    \E handle \in rafPending :
        /\ now + WaveDelta <= MaxCombatTime
        /\ Install(gameLoop([State EXCEPT !.now = now + WaveDelta,
                                          !.rafPending = @ \ {handle}],
                            now + WaveDelta, WaveDraws))

CombatNext == CombatFrame

CombatSpec == CombatInit /\ [][CombatNext]_vars

(***************************************************************************)
(* A last stand: an enemy has reached the Player, whose health is low, and  *)
(* a health pickup lies on the same spot; the pickup came into the engine's *)
(* list before the enemy (spawnPickup before spawnZombie) or after it.      *)
(* The frames are those of the close combat; no key or button is down.      *)
(***************************************************************************)
\* The health the Player has left.
HealthLeft == {10, 20, 100}

\* The game started with the Player at the health, an enemy of the type and a
\* health pickup on the Player; pickupFirst tells which of the two the
\* engine lists first.
LastStand(started, type, health, pickupFirst) ==
    LET p == started.objs[started.player]
        pickup == NewPickup(p.x, p.y, "health", 25)
        early == IF pickupFirst THEN addEntity(started, pickup) ELSE started
        met == InContact(early, type, 0, "pistol")
        late == IF pickupFirst THEN met ELSE addEntity(met, pickup)
    IN  [late EXCEPT !.objs[started.player].health = health,
                     !.mouseButtons = FALSE]

LastStandInit ==
    \E type \in ZombieTypes, health \in HealthLeft, pickupFirst \in BOOLEAN :
        \E started \in {AtWave(1)} :
            \E met \in {LastStand(started, type, health, pickupFirst)} :
                StartsAs(met)

LastStandSpec == LastStandInit /\ [][CombatNext]_vars

(***************************************************************************)
(* Obstacle.onCollision on its own: one obstacle and one Player or enemy    *)
(* that overlaps it, and the engine's calls for the pair.                   *)
(***************************************************************************)
\* The calls for one pair in one run.
MaxPushes == 2

\* The obstacles: the left wall, the top wall and the smallest block.
ObstacleShapes ==
    {NewObstacle(0, 0, 20, MapHeight), NewObstacle(0, 0, MapWidth, 20),
     NewObstacle(20, 20, 40, 40)}

\* Where the entity stands, from the obstacle's position.
PushOffsets == {-30, -5, 10, 25, 100}

\* The entities an obstacle pushes back.
Pushed(x, y) == {NewPlayer(x, y), NewZombie(x, y, "normal")}

\* The engine holds the obstacle o and the entity e.
Against(o, e) == addEntity(addEntity([Constructed EXCEPT !.initPc = "caller"], o), e)

ObstacleInit ==
    \E o \in ObstacleShapes, dx \in PushOffsets, dy \in PushOffsets :
        \E e \in Pushed(o.x + dx, o.y + dy) :
            /\ isColliding(o, e)
            /\ StartsAs(Against(o, e))

\* The collision pass finds the obstacle and the entity overlapping:
\* obstacle.onCollision(entity), then entity.onCollision(obstacle).
Push ==
    /\ inputEvents < MaxPushes
    /\ isColliding(objs[entities[1]], objs[entities[2]])
    /\ LET o == entities[1]
           e == entities[2]
       IN  Install(Called(Calling(
               [State EXCEPT !.objs = onCollision(onCollision(objs, o, e), e, o)],
               "onCollision", [entity |-> e, x |-> objs[e].x, y |-> objs[e].y])))

ObstacleNext == Push

ObstacleSpec == ObstacleInit /\ [][ObstacleNext]_vars

(***************************************************************************)
(* The Player's weapons: a Player just created, or one that has switched to *)
(* a weapon and fired it down to some count, and a caller of shoot,         *)
(* switchWeapon and update, with ammo pickups on the way.                   *)
(***************************************************************************)
\* The calls in one run of the caller.
MaxWeaponCalls == 3

\* The rounds left in the weapon the Player has switched to.
RoundsLeft == {0, 1, 20}

\* The names the caller passes to switchWeapon; "knife" is no weapon.
WeaponNames == Weapons \cup {"knife"}

\* The Player p after switchWeapon(weapon) and shots that leave it `left`
\* rounds of that weapon.
Armed(p, weapon, left) ==
    LET switched == PlayerSwitchWeapon(p, weapon)
    IN  IF weapon \in DOMAIN p.ammo /\ p.ammo[weapon] # Infinity
        THEN [switched EXCEPT !.ammo[weapon] = Min(@, left)]
        ELSE switched

WeaponInit ==
    \E weapon \in WeaponNames, left \in RoundsLeft :
        \E made \in {WithPlayer(100)} :
            StartsAs([made EXCEPT !.objs[made.player] = Armed(@, weapon, left)])

\* One more call; lastCall.arg tells the argument and the Player found.
WeaponCall(s, op, what) ==
    Called(Calling(s, op, [what |-> what, found |-> objs[player]]))

\* player.shoot(), the bullets returned being added to the engine
\* (game.ts:268-273).
Shoot ==
    \E angle \in SpreadDraws :
        /\ inputEvents < MaxWeaponCalls
        /\ LET shot == PlayerShoot(objs[player], [i \in 1..5 |-> angle])
               n == Len(shot.bullets)
           IN  Install(WeaponCall(
                   [State EXCEPT
                       !.objs = [id \in DOMAIN objs \cup (nextId..(nextId + n - 1)) |->
                                    IF id = player THEN shot.player
                                    ELSE IF id \in DOMAIN objs THEN objs[id]
                                    ELSE shot.bullets[id - nextId + 1]],
                       !.entities = @ \o [i \in 1..n |-> nextId + i - 1],
                       !.nextId = @ + n],
                   "shoot", angle))

\* player.switchWeapon(weapon)
SwitchWeapon ==
    \E weapon \in WeaponNames :
        /\ inputEvents < MaxWeaponCalls
        /\ Install(WeaponCall([State EXCEPT !.objs[player] =
                                                PlayerSwitchWeapon(@, weapon)],
                              "switchWeapon", weapon))

\* player.update(deltaTime): a quarter of a second passes.
Reload ==
    /\ inputEvents < MaxWeaponCalls
    /\ Install(WeaponCall([State EXCEPT !.objs[player] = PlayerUpdate(@, WaveDelta)],
                          "update", WaveDelta))

\* A collision pass finds an ammo pickup on the Player.
AmmoContact ==
    \E kind \in {[type |-> "ammo_pistol", value |-> 15],
                  [type |-> "ammo_shotgun", value |-> 5],
                  [type |-> "ammo_rifle", value |-> 10]} :
        /\ inputEvents < MaxWeaponCalls
        /\ LET pickup == nextId
               met == (pickup :> NewPickup(objs[player].x, objs[player].y,
                                           kind.type, kind.value)) @@ objs
               hit == onCollision(onCollision(met, player, pickup), pickup, player)
           IN  Install(WeaponCall([State EXCEPT !.objs = hit], "pickup", kind.type))

WeaponNext ==
    \/ Shoot
    \/ SwitchWeapon
    \/ Reload
    \/ AmmoContact

WeaponSpec == WeaponInit /\ [][WeaponNext]_vars

(***************************************************************************)
(* The pickups: a game just started, with a block in the arena, and the     *)
(* Director's pickup timer advanced five seconds at a time; the positions   *)
(* Math.random() gives fall on the block for the first few draws.           *)
(***************************************************************************)
\* The calls of updatePickupSpawning in one run.
MaxPickupCalls == 6

\* The draws of one cycle: the first `failed` positions fall on the block.
PickupTries(failed) ==
    [i \in 1..11 |-> IF i <= failed THEN [x |-> 0, y |-> 0]
                                    ELSE [x |-> 50, y |-> 10]]

PickupInit ==
    \E layout \in ObstacleLayouts :
        \E loaded \in {initLoaded([Constructed EXCEPT !.initPc = "loaded"], NoDraws)} :
            \E started \in {startGame(loaded, [NoDraws EXCEPT !.obstacles = layout])} :
                StartsAs(started)

\* this.updatePickupSpawning(deltaTime), five seconds after the last call.
PickupCycle ==
    \E failed \in 0..11, type \in {0, 25, 50, 75} :
        /\ inputEvents < MaxPickupCalls
        /\ pickupSpawnTimer + Seconds(5) >= Seconds(15) \/ (failed = 0 /\ type = 0)
        /\ Install(Called(Calling(
               updatePickupSpawning(State, Seconds(5),
                                    [NoDraws EXCEPT !.pickupType = type,
                                                    !.pickupAt = PickupTries(failed)]),
               "updatePickupSpawning", failed)))

PickupNext == PickupCycle

PickupSpec == PickupInit /\ [][PickupNext]_vars

(***************************************************************************)
(* The obstacles of a new game: startGame called again on a started game,   *)
(* for the sizes and positions Math.random() gives the first block.         *)
(***************************************************************************)
\* The calls of startGame in one run.
MaxStarts == 1

\* The draws of createObstacles for the first block; the other four blocks
\* fall on the Player's spawn and are skipped.
LayoutDraws ==
    {[i \in 1..5 |-> IF i = 1 THEN [w |-> w, h |-> h, x |-> x, y |-> y]
                              ELSE NoDraws.obstacles[i]] :
        w \in {0, 50, 99}, h \in {0, 50, 99},
        x \in {0, 25, 50, 75, 99}, y \in {0, 25, 50, 75, 99}}

\* this.startGame()
StartGame ==
    \E layout \in LayoutDraws :
        /\ inputEvents < MaxStarts
        /\ Install(Called(Calling(
               startGame(State, [NoDraws EXCEPT !.obstacles = layout]),
               "startGame", layout[1])))

LayoutNext == StartGame

LayoutSpec == PickupInit /\ [][LayoutNext]_vars

(***************************************************************************)
(* An enemy at the walls: the engine's frames, a tenth of a second apart,   *)
(* over the Player, the four walls and one enemy that spawnZombie has just  *)
(* placed outside an edge of the map.  The frames run GameEngine.update     *)
(* alone: with no key or button down the Director's update moves nothing    *)
(* that is in the engine, it only adds further enemies and pickups wave     *)
(* after wave (WaveSpec has those frames), so without it the enemy meets    *)
(* the same walls and the states of the siege recur.                        *)
(***************************************************************************)
\* The time between two frames of the siege, in ticks.
SiegeDelta == Hundredths(10)

\* Where along the edge the enemy is spawned.
SiegeEdges == {10, 40, 90}

\* One enemy spawned outside an edge of the map, the Player at the centre: a
\* normal enemy in wave 1, a fast one in wave 3 (the same draw, see spawnZombie).
SiegeInit ==
    \E wave0 \in {1, 3}, side \in {0, 25, 50, 75}, edge \in SiegeEdges :
        \E started \in {AtWave(wave0)} :
            \E met \in {spawnZombie(started, [NoDraws EXCEPT !.type = 15,
                                                             !.side = side,
                                                             !.edge = edge])} :
                StartsAs([met EXCEPT !.updateOverridden = FALSE])

\* The clock of the siege is kept modulo two frames: gameLoop looks only at
\* the difference of timestamp and lastTimestamp, which this leaves as it is,
\* and the states of an endless siege recur.
SiegeClock(t) == IF t = SiegeDelta THEN 2 * SiegeDelta ELSE SiegeDelta

\* The browser runs the pending frame callback, SiegeDelta after the last one.
SiegeFrame ==
    \E handle \in rafPending :
        \E next \in {gameLoop([State EXCEPT !.now = SiegeClock(now),
                                            !.lastTimestamp = SiegeClock(now) - SiegeDelta,
                                            !.rafPending = @ \ {handle}],
                              SiegeClock(now), NoDraws)} :
            Install(next)

SiegeNext == SiegeFrame

\* The clock of the browser goes on.
ClockAdvances == now' = SiegeClock(now)

\* gameLoop asks for the next frame before anything else, so a frame is always
\* pending, and the browser fires a pending frame: every step of the siege is a
\* frame and moves the clock, and WF_now(ClockAdvances) says the same as
\* WF_vars(SiegeFrame).
SiegeSpec == SiegeInit /\ [][SiegeNext]_vars /\ WF_now(ClockAdvances)

(***************************************************************************)
(* The properties.                                                          *)
(***************************************************************************)
\* The step is a frame callback: the browser calls gameLoop(timestamp).
FrameFired == now' # now /\ frame'.at = now'

\* The phases of a processed frame, with and without the director's step.
EnginePhases == <<"collide", "update", "prune", "render">>
DirectedPhases == <<"collide", "update", "prune", "director", "render">>

\* The entries of the sequence seq equal to v.
Count(seq, v) == Cardinality({k \in DOMAIN seq : seq[k] = v})

\* C1, as the specification states it: whenever gameState is paused and
\* Escape is down when a frame callback fires, the callback leaves gameState
\* playing and the engine resumed (isPaused false).
C1_PauseKeyResumes ==
    [][(gameState = "paused" /\ "Escape" \in keys /\ FrameFired)
          => (gameState' = "playing" /\ ~isPaused')]_vars

\* C2, as the specification states it: whenever the Player is marked for
\* deletion during a playing frame, gameState is gameOver when that frame's
\* director step has finished, whatever inputs are held.
C2_DeathEndsGame ==
    [][(gameState = "playing" /\ player # Null /\ FrameFired
            /\ player \in frame'.marked)
          => gameState' = "gameOver"]_vars

\* C3, as the specification states it: once an asset load has failed,
\* gameState is title and the frame loop is running (a frame callback is
\* scheduled).
C3_FailedLoadRuns ==
    initPc = "failed"
        => (gameState = "title" /\ gameLoopId # Null /\ gameLoopId \in rafPending)

\* C4, as the specification states it: a frame callback that finds a gameState
\* other than playing (and starts no new game) runs no collision handler,
\* removes no entity and changes no entity's state.
C4_OnlyPlayingAdvances ==
    [][(gameState # "playing" /\ FrameFired /\ ~frame'.started)
          => /\ frame'.calls = <<>>
             /\ \A id \in Range(entities) :
                    id \in Range(entities') /\ objs'[id] = objs[id]]_vars

\* C5: a frame callback that finds gameState title or gameOver and the primary
\* button down starts a fresh game: score 0, wave 1, the timers and the spawn
\* cooldown 0, 7 zombies remaining, gameState playing, and a live list that
\* holds exactly one new Player (health 100, centred on the map) followed by
\* the new obstacles, with no entity of the previous game.
C5_FreshGame ==
    [][(gameState \in {"title", "gameOver"} /\ mouseButtons /\ FrameFired)
          => /\ score' = 0 /\ wave' = 1 /\ waveTimer' = 0
             /\ pickupSpawnTimer' = 0 /\ spawnCooldown' = 0
             /\ zombiesRemaining' = 7
             /\ gameState' = "playing"
             /\ entities' = <<player'>> \o obstacles'
             /\ \A i \in DOMAIN entities' : entities'[i] >= nextId
             /\ \A i, j \in DOMAIN entities' : i # j => entities'[i] # entities'[j]
             /\ objs'[player'].kind = "Player"
             /\ objs'[player'].health = 100
             /\ ~isMarkedForDeletion(objs'[player'])
             /\ 2 * objs'[player'].x + objs'[player'].width = MapWidth
             /\ 2 * objs'[player'].y + objs'[player'].height = MapHeight
             /\ \A i \in DOMAIN obstacles' :
                    objs'[obstacles'[i]].kind = "Obstacle"]_vars

\* C5, reached: a game restarted from the game-over screen, over the entities
\* the last game left.
C5_Restarted ==
    /\ frame.started /\ frame.director = "gameOver" /\ gameState = "playing"
    /\ \E id \in Range(frame.listed) : objs[player].kind = "Player" /\ id < player

\* C6: deletion is deferred.  An entity marked for deletion in a frame's
\* collision pass is still tested against every other entity of the list in
\* that pass, is updated in that frame and is removed by that frame's prune;
\* what a prune removed is not drawn, and no entity that has left the live
\* list is in it again, so that no later pass meets it.
C6_DeferredDeletion ==
    [][/\ \A id \in Range(entities') : id \in Range(entities) \/ id >= nextId
       /\ (FrameFired /\ frame'.ran = "processed") =>
            /\ frame'.listed = entities
            /\ frame'.marked \subseteq Range(entities)
            /\ \A id \in frame'.marked :
                   /\ \A other \in Range(entities) \ {id} :
                          \E k \in DOMAIN frame'.tested :
                              {frame'.tested[k][1], frame'.tested[k][2]} = {id, other}
                   /\ id \in Range(frame'.updated)
                   /\ id \in frame'.pruned
            /\ \A id \in frame'.pruned :
                   id \notin Range(frame'.rendered) /\ id \notin Range(entities')
            /\ \A k \in DOMAIN frame'.tested :
                   {frame'.tested[k][1], frame'.tested[k][2]} \subseteq Range(entities)
            /\ Range(frame'.updated) \subseteq Range(entities)
            /\ Range(frame'.rendered) \subseteq Range(entities')]_vars

\* C6, reached: a frame whose collision pass marked an entity while other
\* entities were still to be tested against it.
C6_MarkedInPass ==
    /\ frame.ran = "processed"
    /\ \E id \in frame.marked :
           /\ id \in frame.pruned /\ id \in Range(frame.updated)
           /\ \E k, m \in DOMAIN frame.tested :
                  /\ k < m
                  /\ frame.tested[k][3] /\ id \in {frame.tested[k][1], frame.tested[k][2]}
                  /\ id \in {frame.tested[m][1], frame.tested[m][2]}

\* C7: in the collision pass of a processed frame every unordered pair of
\* distinct entities of the live list is tested exactly once; for a pair
\* found overlapping a.onCollision(b) and b.onCollision(a) are each called
\* exactly once, for a pair found apart neither is called; and isColliding
\* gives the same answer for (a, b) and (b, a).
C7_PairsOnce ==
    /\ frame.ran = "processed" =>
          LET list == frame.listed
              n == Len(list)
              tested == frame.tested
          IN  /\ Len(tested) * 2 = n * (n - 1)
              /\ \A i, j \in 1..n :
                     i < j => Cardinality({k \in DOMAIN tested :
                                  {tested[k][1], tested[k][2]} = {list[i], list[j]}}) = 1
              /\ \A k \in DOMAIN tested :
                     LET a == tested[k][1]
                         b == tested[k][2]
                         once == IF tested[k][3] THEN 1 ELSE 0
                     IN  /\ a # b
                         /\ Count(frame.calls, <<a, b>>) = once
                         /\ Count(frame.calls, <<b, a>>) = once
              /\ \A c \in DOMAIN frame.calls :
                     \E k \in DOMAIN tested :
                         /\ tested[k][3]
                         /\ frame.calls[c] \in {<<tested[k][1], tested[k][2]>>,
                                                <<tested[k][2], tested[k][1]>>}
    /\ \A a, b \in Range(entities) :
           isColliding(objs[a], objs[b]) = isColliding(objs[b], objs[a])

\* C7, reached: a collision pass over three entities or more that found one
\* pair overlapping and another pair apart.
C7_HitAndMiss ==
    /\ frame.ran = "processed" /\ Len(frame.listed) >= 3
    /\ \E k, m \in DOMAIN frame.tested : frame.tested[k][3] /\ ~frame.tested[m][3]
    /\ \E a, b \in Range(entities) : a # b /\ isColliding(objs[a], objs[b])

\* C8: a frame callback of an engine that is not paused runs collision
\* detection, then the update of every entity, then the prune, then (after
\* the director's step, where one is installed) the render; the render draws
\* the live list as it stands, in which there is no entity the prune removed
\* and no entity marked for deletion: every entity drawn was in the list
\* before the prune and survived it, or was added after the prune.
C8_PhaseOrder ==
    [][(FrameFired /\ ~isPaused)
          => /\ frame'.phases =
                    IF updateOverridden THEN DirectedPhases ELSE EnginePhases
             /\ frame'.updated = entities
             /\ frame'.rendered = entities'
             /\ \A id \in Range(frame'.rendered) :
                    /\ id \notin frame'.pruned
                    /\ ~isMarkedForDeletion(objs'[id])
                    /\ id \in Range(entities) \/ id >= nextId]_vars

\* C8, reached: a processed frame whose prune removed an entity and whose
\* render drew the others.
C8_PrunedThenRendered ==
    /\ frame.ran = "processed" /\ frame.phases = DirectedPhases
    /\ frame.pruned # {} /\ frame.rendered # <<>>
    /\ Range(frame.rendered) = Range(frame.listed) \ frame.pruned

\* C9: a frame callback of a paused engine is skipped entirely: it runs no
\* collision test, update, prune, director step or render, it leaves the
\* entity list, every entity, the canvas and the game's state as they were,
\* and it has scheduled the next frame callback.
C9_PausedFrameSkipped ==
    [][(isPaused /\ FrameFired)
          => /\ frame'.ran = "skipped"
             /\ frame'.phases = <<>> /\ frame'.tested = <<>> /\ frame'.calls = <<>>
             /\ frame'.updated = <<>> /\ frame'.pruned = {} /\ frame'.rendered = <<>>
             /\ frame'.surface = frame.surface
             /\ entities' = entities /\ objs' = objs
             /\ lastTimestamp' = lastTimestamp /\ isPaused'
             /\ UNCHANGED <<player, score, wave, zombiesRemaining, spawnCooldown,
                            gameState, waveTimer, pickupSpawnTimer, obstacles>>
             /\ gameLoopId' # Null /\ rafPending' = {gameLoopId'}]_vars

\* C9, reached: a skipped frame callback of a paused game with entities, and
\* the next callback pending.
C9_SkippedAndScheduled ==
    /\ frame.ran = "skipped" /\ isPaused /\ entities # <<>>
    /\ gameLoopId \in rafPending

\* C10: after pause() and a resume() at time T, the first frame processed
\* gets no more than its timestamp minus T as deltaTime, and exactly that
\* when it is a frame callback of the running loop; resume() on an engine
\* that is not paused changes nothing.
C10_ResumeRestartsClock ==
    [][/\ ~isPaused => resume(State) = State
       /\ (resumedAt # <<>> /\ frame' # frame /\ frame'.ran = "processed")
            => /\ frame'.deltaTime <= frame'.at - resumedAt[1]
               /\ frame'.deltaTime >= 0
               /\ FrameFired => frame'.deltaTime = frame'.at - resumedAt[1]]_vars

\* C10, reached: a frame callback processed a second and a half after a
\* resume(), the first since, with that time as its deltaTime.
C10_FrameAfterResume ==
    /\ frame.ran = "processed" /\ frame.resumed # <<>> /\ frame.at = now
    /\ frame.deltaTime = frame.at - frame.resumed[1]
    /\ frame.deltaTime = Hundredths(150)

\* The step is the client's call of op.
CallOf(op) == inputEvents' = inputEvents + 1 /\ lastCall'.op = op

\* The fields of the engine and the history of its frames.
engineFields == <<entities, objs, lastTimestamp, gameLoopId, isPaused,
                  rafPending, resumedAt, frame>>

\* C11: whatever start(), stop(), pause() and resume() calls the client
\* interleaves with the frame callbacks, at most one frame callback is
\* pending, and it is the one gameLoopId names; start() on a running engine
\* changes nothing, stop() leaves no callback pending, and stop() on a
\* stopped engine changes nothing.
C11_OneLoop ==
    [][/\ Cardinality(rafPending') <= 1
       /\ rafPending' \subseteq {gameLoopId'}
       /\ (CallOf("start") /\ gameLoopId # Null) => UNCHANGED engineFields
       /\ CallOf("stop") => (rafPending' = {} /\ gameLoopId' = Null)
       /\ (CallOf("stop") /\ gameLoopId = Null) => UNCHANGED engineFields]_vars

\* C11, reached: start() called on a running engine, one callback pending.
C11_StartedTwice ==
    /\ lastCall.op = "start" /\ lastCall.arg # Null
    /\ gameLoopId # Null /\ rafPending = {gameLoopId}

\* C12: the Player's health is within [0, 100] in every state, whatever
\* takeDamage and heal calls and whatever contacts with enemies and pickups
\* came before.
C12_HealthInRange ==
    \A id \in DOMAIN objs :
        objs[id].kind = "Player" => (objs[id].health >= 0 /\ objs[id].health <= 100)

\* C12, reached: a health pickup met a Player with less than 25 health
\* missing and left it at 100.
C12_PickupCapped ==
    /\ lastCall.op = "pickup" /\ lastCall.arg.what = "health"
    /\ lastCall.arg.health > 75 /\ lastCall.arg.health < 100
    /\ objs[player].health = 100

\* C13: takeDamage(a), a >= 0, on a Player of health h in 1..100 leaves
\* health max(0, h - a); it marks the Player for deletion when that is 0 and
\* leaves the mark as it was when that is positive.
C13_TakeDamage ==
    [][(CallOf("takeDamage") /\ objs[player].health \in 1..100)
          => LET h == objs[player].health
                 a == lastCall'.arg.what
             IN  /\ a >= 0
                 /\ objs'[player].health = Max(0, h - a)
                 /\ isMarkedForDeletion(objs'[player]) =
                        (isMarkedForDeletion(objs[player]) \/ h - a <= 0)
                 /\ [objs'[player] EXCEPT !.health = h, !.markedForDeletion = FALSE]
                        = [objs[player] EXCEPT !.markedForDeletion = FALSE]]_vars

\* C13, reached: a Player at health 5, not marked, took 10 damage and is at
\* health 0, marked for deletion.
C13_FiveTakesTen ==
    /\ lastCall.op = "takeDamage" /\ lastCall.arg = [what |-> 10, health |-> 5]
    /\ objs[player].health = 0 /\ isMarkedForDeletion(objs[player])

\* The enemies of the list, in the heap h.
Enemies(h, list) == {id \in Range(list) : h[id].kind = "Zombie"}

\* The enemies the step adds to the engine.
Spawned == Enemies(objs', entities') \ DOMAIN objs

\* C14: wave N puts exactly 5 + 2N enemies into the engine before its timer
\* first accumulates (7 in wave 1, 15 in wave 5): zombiesRemaining starts at
\* 5 + 2N, goes down by exactly 1 with each enemy added and never below 0,
\* and the timer accumulates only once it is 0.  No enemy dies in this run,
\* so the engine holds those of the waves before, N(N+6) - (5+2N) in all,
\* and those of wave N added so far.
C14_WaveSpawns ==
    /\ [](gameState = "playing" =>
              /\ zombiesRemaining >= 0 /\ zombiesRemaining <= 5 + 2 * wave
              /\ Cardinality(Enemies(objs, entities))
                     = wave * (wave + 6) - zombiesRemaining
              /\ (waveTimer > 0 => zombiesRemaining = 0))
    /\ [][/\ (gameState = "playing" /\ wave' = wave) =>
                 (/\ zombiesRemaining' = zombiesRemaining - Cardinality(Spawned)
                  /\ Cardinality(Spawned) <= 1)
          /\ (wave' # wave) =>
                 (zombiesRemaining' = 5 + 2 * wave' /\ Spawned = {})
          /\ (waveTimer' > waveTimer) =>
                 (zombiesRemaining = 0 /\ Spawned = {})]_vars

\* C14, reached: the timer of wave 5 accumulates, 15 enemies after the 40 of
\* waves 1 to 4.
C14_FifthWaveOut ==
    /\ gameState = "playing" /\ wave = 5
    /\ zombiesRemaining = 0 /\ waveTimer > 0
    /\ Cardinality(Enemies(objs, entities)) = 40 + 15

\* C16: when wave is incremented no enemy is alive in the engine's list.
C16_WaveDefeated ==
    [][wave' > wave =>
          \A id \in Enemies(objs', entities') : isMarkedForDeletion(objs'[id])]_vars

\* C16, reached: wave 2 has begun.
C16_SecondWave == gameState = "playing" /\ wave = 2

\* C15: the type of the enemy spawned follows from one draw r, the tank
\* check first: tank when wave >= 5 and r < 0.1, else fast when wave >= 3
\* and r < 0.2, else normal.
C15_TankFirst ==
    [][CallOf("spawnZombie") =>
          LET r == lastCall'.arg
              type == IF wave >= 5 /\ r < 10 THEN "tank"
                      ELSE IF wave >= 3 /\ r < 20 THEN "fast"
                      ELSE "normal"
          IN  \A id \in Spawned : objs'[id].type = type]_vars

\* C15, reached: an enemy spawned at wave 5 or later on a draw below 0.1.
C15_LowDrawLateWave ==
    /\ lastCall.op = "spawnZombie" /\ lastCall.arg < 10
    /\ wave >= 5
    /\ Enemies(objs, entities) # {}

\* The enemies of the engine's list that overlap the Player.
Touching == {z \in Enemies(objs, entities) : isColliding(objs[player], objs[z])}

\* C17: a frame in which every enemy that overlaps the Player is within its
\* attack cooldown (it attacked less than a second ago) does not reduce the
\* Player's health.
C17_CooldownGates ==
    [][(/\ FrameFired /\ frame'.ran = "processed"
        /\ player # Null /\ player \in DOMAIN objs'
        /\ Touching # {}
        /\ \A z \in Touching : objs[z].attackCooldown > 0)
          => objs'[player].health = objs[player].health]_vars

\* C17, reached: an enemy within its attack cooldown overlaps the Player.
C17_ContactInCooldown ==
    /\ player # Null /\ gameState = "playing"
    /\ \E z \in Touching : objs[z].attackCooldown > 0

\* The projectiles of the Player in the engine's list that overlap the enemy z.
HitsOn(z) ==
    {b \in Range(entities) : /\ objs[b].kind = "Bullet"
                             /\ objs[b].source = "player"
                             /\ isColliding(objs[z], objs[b])}

\* C18: in one frame an enemy that projectiles of the Player overlap loses
\* the damage of one of them only.
C18_OneHitAFrame ==
    [][(FrameFired /\ frame'.ran = "processed")
          => \A z \in Enemies(objs, entities) \cap DOMAIN objs' :
                 HitsOn(z) # {} =>
                     \E b \in HitsOn(z) :
                         objs[z].health - objs'[z].health = objs[b].damage]_vars

\* C18, reached: several projectiles of the Player overlap one enemy.
C18_SeveralHits ==
    \E z \in Enemies(objs, entities) : Cardinality(HitsOn(z)) > 1

\* C19: after obstacle.onCollision(e) for a Player or an enemy e that
\* overlaps the obstacle, e does not overlap it.
C19_PushedOut ==
    [][CallOf("onCollision") =>
          ~isColliding(objs'[entities'[1]], objs'[entities'[2]])]_vars

\* C19, reached: the call has left the entity clear of the obstacle.
C19_Separated ==
    /\ lastCall.op = "onCollision"
    /\ ~isColliding(objs[entities[1]], objs[entities[2]])

\* C20: the push-back moves the entity along the axis of the smaller overlap
\* only, by that overlap; towards smaller coordinates when the entity's
\* position is below the obstacle's centre on that axis, towards larger ones
\* otherwise.
C20_FromCentre ==
    [][CallOf("onCollision") =>
          LET o == objs[entities[1]]
              e == objs[entities[2]]
              after == objs'[entities[2]]
              overlapX == Min(o.x + o.width - e.x, e.x + e.width - o.x)
              overlapY == Min(o.y + o.height - e.y, e.y + e.height - o.y)
          IN  /\ overlapX < overlapY =>
                    /\ after.y = e.y
                    /\ after.x = IF 2 * e.x < 2 * o.x + o.width
                                 THEN e.x - overlapX ELSE e.x + overlapX
              /\ overlapY < overlapX =>
                    /\ after.x = e.x
                    /\ after.y = IF 2 * e.y < 2 * o.y + o.height
                                 THEN e.y - overlapY ELSE e.y + overlapY]_vars

\* C20, reached: the entity stood between the obstacle's left edge and its
\* centre and the call has moved it along x.
C20_PushedFromInside ==
    /\ lastCall.op = "onCollision"
    /\ LET o == objs[entities[1]]
           e == objs[entities[2]]
       IN  /\ lastCall.arg.x >= o.x
           /\ 2 * lastCall.arg.x < 2 * o.x + o.width
           /\ e.x # lastCall.arg.x

\* The entities the step adds to the engine.
Added == Range(entities') \ DOMAIN objs

\* The shoot() of the step finds a Player that can fire.
Fires ==
    /\ CallOf("shoot")
    /\ objs[player].shootCooldown <= 0
    /\ objs[player].ammo[objs[player].weaponType] # 0

\* The shoot() of the step finds a Player in its cooldown or out of ammo.
Misfires ==
    /\ CallOf("shoot")
    /\ \/ objs[player].shootCooldown > 0
       \/ objs[player].ammo[objs[player].weaponType] = 0

\* C21: after a successful shoot() the cooldown is that of the weapon fired:
\* 0.4 s for the pistol, 0.8 s for the shotgun, 0.15 s for the rifle.
C21_WeaponCooldown ==
    [][Fires =>
          objs'[player].shootCooldown =
              CASE objs[player].weaponType = "pistol"  -> Hundredths(40)
                [] objs[player].weaponType = "shotgun" -> Hundredths(80)
                [] objs[player].weaponType = "rifle"   -> Hundredths(15)]_vars

\* C21, reached: a Player that never switched weapon has fired.
C21_FreshPlayerFired ==
    /\ lastCall.op = "shoot" /\ inputEvents = 1
    /\ lastCall.arg.found = NewPlayer(lastCall.arg.found.x, lastCall.arg.found.y)
    /\ objs[player].shootCooldown > 0

\* C22: shoot() with the cooldown running or no ammo for the current weapon
\* returns no projectile and leaves the Player as it was.
C22_MisfireChangesNothing ==
    [][Misfires => (Added = {} /\ entities' = entities /\ objs' = objs)]_vars

\* C22, reached: shoot() was called with an empty shotgun, within the
\* cooldown of the shot that emptied it.
C22_Misfired ==
    /\ lastCall.op = "shoot"
    /\ lastCall.arg.found.weaponType = "shotgun"
    /\ lastCall.arg.found.ammo.shotgun = 0
    /\ lastCall.arg.found.shootCooldown > 0
    /\ objs[player] = lastCall.arg.found

\* C23: every ammo count is at least 0 and the pistol's is infinite, in every
\* state; a successful shot of the shotgun or the rifle takes exactly 1 from
\* that weapon's count and nothing from the others.
C23_AmmoCounts ==
    /\ [](\A id \in DOMAIN objs :
              objs[id].kind = "Player" =>
                  /\ objs[id].ammo.pistol = Infinity
                  /\ objs[id].ammo.shotgun >= 0
                  /\ objs[id].ammo.rifle >= 0)
    /\ [][Fires =>
             \A weapon \in Weapons :
                 objs'[player].ammo[weapon] =
                     IF weapon = objs[player].weaponType /\ weapon # "pistol"
                     THEN objs[player].ammo[weapon] - 1
                     ELSE objs[player].ammo[weapon]]_vars

\* C23, reached: the last round of the shotgun has been fired, five pellets
\* for one round.
C23_LastRound ==
    /\ lastCall.op = "shoot"
    /\ lastCall.arg.found.weaponType = "shotgun"
    /\ lastCall.arg.found.ammo.shotgun = 1
    /\ objs[player].ammo.shotgun = 0
    /\ Len(entities) >= 6

\* C24: a successful shot adds 5 projectiles for the shotgun and 1 for the
\* pistol or the rifle, all of source 'player'; an unsuccessful one adds none.
C24_ProjectilesPerShot ==
    [][CallOf("shoot") =>
          /\ \A id \in Added : objs'[id].kind = "Bullet" /\ objs'[id].source = "player"
          /\ Cardinality(Added) =
                 IF Misfires THEN 0
                 ELSE IF objs[player].weaponType = "shotgun" THEN 5 ELSE 1]_vars

\* C24, reached: a shotgun shot has put five projectiles into the engine.
C24_FivePellets ==
    /\ lastCall.op = "shoot" /\ inputEvents = 1
    /\ lastCall.arg.found.weaponType = "shotgun"
    /\ Cardinality({id \in Range(entities) : objs[id].kind = "Bullet"}) = 5

\* C25: no pickup of the engine overlaps an obstacle of the Director's list.
\* A cycle of the pickup timer sets it back to 0, tests at most 10
\* positions, adds one pickup when one of them is free and none otherwise.
C25_PickupPlacement ==
    /\ [](\A id \in Range(entities), o \in Range(obstacles) :
              objs[id].kind = "Pickup" => ~isColliding(objs[id], objs[o]))
    /\ [][(CallOf("updatePickupSpawning")
            /\ pickupSpawnTimer + Seconds(5) >= Seconds(15))
              => /\ pickupSpawnTimer' = 0
                 /\ Cardinality(Added) = IF lastCall'.arg >= 10 THEN 0 ELSE 1
                 /\ \A id \in Added : objs'[id].kind = "Pickup"]_vars

\* C25, reached: a cycle whose first ten positions fell on the block and
\* whose eleventh was free has added no pickup and reset the timer.
C25_CycleAbandoned ==
    /\ lastCall = [op |-> "updatePickupSpawning", arg |-> 10]
    /\ pickupSpawnTimer = 0
    /\ inputEvents = 3 /\ Len(entities) = 6

\* C26: at the end of a frame in which the Director drew a screen or the
\* HUD, that drawing is on the surface.
C26_ScreenStays ==
    (frame.ran = "processed" /\ frame.director # "none"
        /\ (frame.director = "playing" => player # Null))
      => frame.surface.screens # <<>>

\* C26, reached: a frame in which the Director drew the title screen.
C26_TitleFrame == frame.ran = "processed" /\ frame.director = "title"

\* The enemies the frame of the step removes from the engine, their health
\* at 0 or below.
Killed ==
    {z \in Enemies(objs, entities) \cap frame'.pruned : z \notin DOMAIN objs'}

\* C27: the score goes up in a frame that removes a killed enemy; it is
\* never negative and goes down only to 0, in startGame.
C27_KillScores ==
    /\ [](score >= 0)
    /\ [][/\ (FrameFired /\ Killed # {} /\ ~frame'.started) => score' > score
          /\ score' < score => (score' = 0 /\ frame'.started)]_vars

\* C27, reached: a frame has removed the five pellets of a shot and the
\* enemy they killed.
C27_EnemyKilled ==
    /\ gameState = "playing" /\ frame.ran = "processed"
    /\ Cardinality(frame.pruned) = 6
    /\ Touching = {}

\* The rectangle of the Player at its spawn: 40 x 40 on the map's centre.
SpawnRectangle ==
    [x |-> MapWidth \div 2 - 20, y |-> MapHeight \div 2 - 20,
     width |-> 40, height |-> 40]

\* C28: no block that createObstacles placed (the obstacles after the four
\* walls) overlaps the Player's spawn rectangle.
C28_SpawnClear ==
    \A i \in 5..Len(obstacles) : ~isColliding(objs[obstacles[i]], SpawnRectangle)

\* C28, reached: startGame has placed a block at the position drawn.
C28_BlockPlaced ==
    /\ lastCall.op = "startGame"
    /\ Len(obstacles) = 5
    /\ objs[player] = NewPlayer(SpawnRectangle.x, SpawnRectangle.y)

\* The list the frame began with, less the entities its prune pass removed.
Kept == SelectSeq(frame.listed, LAMBDA id : id \notin frame.pruned)

\* C29: in a processed frame the collision pass and the update pass go over
\* the list the frame began with, in its order; the entities that leave it
\* are those the prune pass removes; what the Director adds comes after the
\* prune pass, behind the entities kept (a restart replaces the list).
C29_ListStable ==
    frame.ran = "processed" =>
        /\ frame.updated = frame.listed
        /\ \A i \in DOMAIN frame.tested :
               {frame.tested[i][1], frame.tested[i][2]} \subseteq Range(frame.listed)
        /\ 2 * Len(frame.tested) = Len(frame.listed) * (Len(frame.listed) - 1)
        /\ frame.pruned \subseteq Range(frame.listed)
        /\ ~frame.started =>
               /\ Len(entities) >= Len(Kept)
               /\ SubSeq(entities, 1, Len(Kept)) = Kept
               /\ \A i \in (Len(Kept) + 1)..Len(entities) :
                      entities[i] \notin Range(frame.listed)
        /\ frame.director # "none" =>
               \E i, j \in DOMAIN frame.phases :
                   i < j /\ frame.phases[i] = "prune" /\ frame.phases[j] = "director"

\* C29, reached: a frame has pruned an entity and the Director has added one
\* behind the entities kept.
C29_PrunedAndAdded ==
    /\ frame.ran = "processed" /\ ~frame.started
    /\ frame.pruned # {}
    /\ Len(entities) > Len(Kept)

\* The entity e is in the arena: inside the map and clear of the four walls.
Inside(e) ==
    /\ e.x >= 0 /\ e.x + e.width <= MapWidth
    /\ e.y >= 0 /\ e.y + e.height <= MapHeight
    /\ \A i \in 1..4 : ~isColliding(objs[obstacles[i]], e)

\* C30: with the Player alive in the arena and the enemy's step per frame
\* below 35, the enemy spawned outside an edge is in the arena at some time.
C30_EnemyGetsIn ==
    <>(\E z \in Enemies(objs, entities) : Inside(objs[z]))

\* C30, reached: the enemy has walked up to a wall from outside the map.
C30_AtTheWall ==
    /\ frame.ran = "processed"
    /\ ~isMarkedForDeletion(objs[player]) /\ Inside(objs[player])
    /\ \E z \in Enemies(objs, entities) :
           /\ ~Inside(objs[z])
           /\ \E i \in 1..4 : isColliding(objs[obstacles[i]], objs[z])

\* C31: the Player is marked for deletion exactly when its health is 0.
C31_MarkedIffDead ==
    player # Null =>
        (isMarkedForDeletion(objs[player]) <=> objs[player].health = 0)

\* C31, reached: a collision pass has killed the Player and then given it the
\* health pickup.
C31_HealedWhenDead ==
    /\ frame.ran = "processed" /\ player # Null
    /\ player \in frame.pruned /\ frame.pruned \ {player} # {}
    /\ isMarkedForDeletion(objs[player])
    /\ objs[player].health = 25

\* The damage of the projectiles of the set S, added up.
RECURSIVE TotalDamage(_)
TotalDamage(S) ==
    IF S = {} THEN 0
    ELSE LET b == CHOOSE x \in S : TRUE
         IN  objs[b].damage + TotalDamage(S \ {b})

\* C32: a projectile of the Player damages a given enemy at most once: in the
\* frame whose collision pass finds it on an enemy the enemy loses the damage
\* of each such projectile once, the projectile is marked for deletion and
\* pruned, and nothing that has left the live list comes back to it.
C32_HitsOnce ==
    [][(FrameFired /\ frame'.ran = "processed")
          => /\ \A z \in Enemies(objs, entities) :
                    /\ z \in DOMAIN objs' =>
                           objs[z].health - objs'[z].health = TotalDamage(HitsOn(z))
                    /\ \A b \in HitsOn(z) :
                           /\ b \in frame'.marked /\ b \in frame'.pruned
                           /\ b \notin Range(entities')
             /\ \A id \in Range(entities') :
                    id \in Range(entities) \/ id \notin DOMAIN objs]_vars

\* C32, reached: a frame has pruned a projectile of the Player that was on an
\* enemy, and the enemy is still in the live list, short of that damage.
C32_BulletSpent ==
    /\ frame.ran = "processed"
    /\ \E z \in Enemies(objs, entities) :
           /\ objs[z].health < NewZombie(0, 0, objs[z].type).health
           /\ \E c \in Range(frame.calls) :
                  /\ c[1] = z /\ c[2] \in frame.pruned
                  /\ c[2] \notin Range(entities)

====
